---- MODULE Spec2Model ----
(***************************************************************************)
(* Model of core/job_queue.py (JobQueue): a bounded asyncio.Queue of jobs, *)
(* a pool of worker tasks running _worker_loop/_run_job, and the callers   *)
(* of enqueue(), cancel(), start() and stop(); and of comfy/client.py      *)
(* (ComfyUIClient): the output resolver _extract_first_file, the gateway   *)
(* calls queue_prompt, history, get_queue_status and view_bytes, and the   *)
(* waiter wait_for_result; of core/telegram_pipeline.py                    *)
(* (enqueue_from_message, cancel_last); of the preset picker and the       *)
(* preset attempt loop of msg_prompt in bot/handlers/generate.py; and of   *)
(* core/task_queue.py (TaskQueue).                                         *)
(*                                                                         *)
(* Every `await` of the code is a point where the event loop may run       *)
(* another task, so every action below runs one coroutine from one await   *)
(* to the next.  q.get() on a non-empty queue and q.put() on a non-full    *)
(* queue do not suspend, so they are part of the step that reaches them.   *)
(***************************************************************************)
EXTENDS Naturals, Integers, Sequences, FiniteSets, TLC

\* ------------------------------------------------------------------ bounds
NJobs == 2            \* jobs the callers create
MaxCancelCalls == 2   \* calls of cancel() the callers make in one run
MaxConcurrency == 2   \* JobQueueConfig.concurrency is drawn from 1..MaxConcurrency
Maxsize == 1          \* JobQueueConfig.maxsize (200 by default; small here)
MaxRetries == 1       \* Job.max_retries (2 by default; small here)

JobIds == 1..NJobs
WorkerIds == 0..(MaxConcurrency - 1)

\* JobStatus
QUEUED == "queued"
RUNNING == "running"
RETRYING == "retrying"
DONE == "done"
FAILED == "failed"
CANCELED == "canceled"
JobStatus == {QUEUED, RUNNING, RETRYING, DONE, FAILED, CANCELED}
Terminal == {DONE, FAILED, CANCELED}

\* what one call of the worker function can end with: its result, an
\* exception, TimeoutError of asyncio.timeout, the engine's rejection of the
\* submission (raised as an exception like any other)
Outcomes == {"ok", "error", "timeout", "rejected"}

VARIABLES
    concurrency,   \* JobQueueConfig.concurrency
    jobs,          \* JobQueue._jobs: the ids registered
    q,             \* JobQueue._q: the backlog, a sequence of job ids
    unfinished,    \* asyncio.Queue's count of put() not yet task_done()
    tasks,         \* JobQueue._tasks: the worker tasks that exist
    stopping,      \* JobQueue._stopping
    status,        \* Job.status
    attempt,       \* Job.attempt
    last_error,    \* Job.last_error ("" or the exception's type)
    cancel_event,  \* Job.cancel_event
    wpc,           \* each worker task's position (the await it is suspended in)
    wjob,          \* the job each worker holds (0: none)
    wcancel,       \* Task.cancel() was called and CancelledError is not yet delivered
    epc,           \* each enqueue() call's position
    spc,           \* the stop() call's position
    hist,          \* per job: what the observer on_status received, and from whom
    calls,         \* per job: invocations of the worker function
    done_cb,       \* per job: invocations of on_done
    error_cb,      \* per job: invocations of on_error
    taken,         \* per job: a worker has dequeued it
    cancel_rets,   \* per job id: the values cancel(id) returned, in call order
    on_status,     \* Job.on_status as the caller supplied it: "returns" or "raises"
    obs_raised,    \* per job: a call of the observer has raised
    payload,       \* the history item handed to _extract_first_file
    resolved,      \* what _extract_first_file returned for it
    cpc,           \* the position of the task that submits a workflow and waits
    prompt_id,     \* what queue_prompt returned ("" before)
    client_last_error,      \* ComfyUIClient.last_error ("None" for None)
    history_h,     \* wait_for_result's h: the last answer of history()
    file_f,        \* wait_for_result's f: what resolve_outputs returned
    check_count,   \* wait_for_result's check_count
    empty_history_retries,  \* wait_for_result's empty_history_retries
    now,           \* loop.time() since wait_for_result was called, in seconds
    res_attempt,   \* resolve_outputs' attempt
    vb,            \* view_bytes' call under way: attempt, requests sent, failures, last answer
    gw,            \* the gateway call that ended last: its answer and how it ended
    wait_ret,      \* what wait_for_result returned
    last_err,      \* wait_for_result's last_err ("None" for None)
    mpc,           \* each enqueue_from_message() call's position
    user_of,       \* Job.user_id of the job the call creates (0: not created)
    user_last_job, \* TelegramComfyPipeline._user_last_job (0: no entry)
    last_cancel,   \* the cancel_last() call that ended last: user, job id read, result
    ppc,           \* the position of the Hunyuan preset loop of msg_prompt
    start_idx,     \* msg_prompt's start_idx
    attempt_i,     \* the loop's i (1 for the first attempt)
    submitted,     \* the preset indices whose workflow was handed to queue_prompt
    preset_err,    \* the text of the RuntimeError the loop raised ("None": none)
    system_stats,  \* the argument of _pick_hunyuan_preset_index
    pick_ret,      \* what _pick_hunyuan_preset_index returned (Unset: not called yet)
    t_status,      \* TaskQueue: the status of each GenerationTask
    t_queue,       \* TaskQueue.queue
    t_sem,         \* the value of TaskQueue.semaphore
    t_waiters,     \* the consumers waiting for the semaphore, in order
    kpc,           \* the position of each process_queue consumer
    ktask,         \* the task each consumer holds (0: none)
    t_cancelled,   \* the tasks for which cancel_task returned True
    t_worked,      \* the tasks that were passed to worker_fn
    b_pc,          \* backoff: "idle", "sleep" (in asyncio.sleep), "attempt"
    b_attempt,     \* the attempt that failed last (job.attempt)
    b_base,        \* job.backoff_base_s
    b_max_s,       \* job.backoff_max_s
    b_raw,         \* raw of the last _sleep_backoff
    b_jitter,      \* jitter of the last _sleep_backoff
    b_prev_raw,    \* raw of the _sleep_backoff before it
    b_clock        \* the time since the last asyncio.sleep began

jobvars == <<status, attempt, last_error, cancel_event, hist, calls, done_cb, error_cb>>
resolvervars == <<payload, resolved>>
clientvars == <<cpc, prompt_id, client_last_error, history_h, file_f, check_count,
                empty_history_retries, now, res_attempt, vb, gw, wait_ret, last_err>>
pipevars == <<mpc, user_of, user_last_job, last_cancel>>
presetvars == <<ppc, start_idx, attempt_i, submitted, preset_err>>
pickvars == <<system_stats, pick_ret>>
taskvars == <<t_status, t_queue, t_sem, t_waiters, kpc, ktask, t_cancelled, t_worked>>
backoffvars == <<b_pc, b_attempt, b_base, b_max_s, b_raw, b_jitter, b_prev_raw, b_clock>>
\* what no method of the queue writes
fixedq == <<concurrency, on_status, resolvervars, clientvars, presetvars, pickvars, taskvars, backoffvars>>
\* what no action of the queue's direct callers writes
fixed == <<fixedq, pipevars>>
vars == <<concurrency, jobs, q, unfinished, tasks, stopping, status, attempt, last_error,
          cancel_event, wpc, wjob, wcancel, epc, spc, hist, calls, done_cb,
          error_cb, taken, cancel_rets, on_status, obs_raised, resolvervars, clientvars,
          pipevars, presetvars, pickvars, taskvars, backoffvars>>
\* the variables of the queue
queuevars == <<concurrency, jobs, q, unfinished, tasks, stopping, status, attempt, last_error,
               cancel_event, wpc, wjob, wcancel, epc, spc, hist, calls, done_cb,
               error_cb, taken, cancel_rets, on_status, obs_raised>>

\* ------------------------------------------------------------------- Init
\* the queue after __init__, no job created yet
QueueInit ==
    /\ concurrency \in 1..MaxConcurrency
    /\ jobs = {}
    /\ q = <<>>
    /\ unfinished = 0
    /\ tasks = {}
    /\ stopping = FALSE
    /\ status = [j \in JobIds |-> QUEUED]
    /\ attempt = [j \in JobIds |-> 0]
    /\ last_error = [j \in JobIds |-> ""]
    /\ cancel_event = [j \in JobIds |-> FALSE]
    /\ wpc = [w \in WorkerIds |-> "none"]
    /\ wjob = [w \in WorkerIds |-> 0]
    /\ wcancel = [w \in WorkerIds |-> FALSE]
    /\ epc = [j \in JobIds |-> "new"]
    /\ spc = "idle"
    /\ hist = [j \in JobIds |-> <<>>]
    /\ calls = [j \in JobIds |-> 0]
    /\ done_cb = [j \in JobIds |-> 0]
    /\ error_cb = [j \in JobIds |-> 0]
    /\ taken = [j \in JobIds |-> FALSE]
    /\ cancel_rets = [j \in JobIds |-> <<>>]
    /\ obs_raised = [j \in JobIds |-> FALSE]

\* Python's None; a variable that holds no value yet; the dict {}
None == [none |-> TRUE]
Unset == [unset |-> TRUE]
EmptyDict == [k \in {} |-> None]

\* no call of the resolver is under way
ResolverIdle ==
    /\ payload = EmptyDict
    /\ resolved = Unset

\* no call of view_bytes is under way
VbIdle == [attempt |-> 0, requests |-> 0, failures |-> 0, resp |-> None]

\* the client after __init__, no workflow submitted yet
ClientIdle ==
    /\ cpc = "idle"
    /\ prompt_id = ""
    /\ client_last_error = "None"
    /\ history_h = Unset
    /\ file_f = Unset
    /\ check_count = 0
    /\ empty_history_retries = 0
    /\ now = 0
    /\ res_attempt = 0
    /\ vb = VbIdle
    /\ gw = [call |-> "none"]
    /\ wait_ret = Unset
    /\ last_err = "None"

\* the users that send messages
NUsers == 2
Users == 1..NUsers

\* the pipeline after __init__, no message handled yet
PipelineIdle ==
    /\ mpc = [j \in JobIds |-> "new"]
    /\ user_of = [j \in JobIds |-> 0]
    /\ user_last_job = [u \in Users |-> 0]
    /\ last_cancel = Unset

\* HUNYUAN_PRESETS, cheapest first: 360p, 480p, 720p
NPresets == 3

\* no video job is under way
PresetIdle ==
    /\ ppc = "idle"
    /\ start_idx = 0
    /\ attempt_i = 0
    /\ submitted = <<>>
    /\ preset_err = "None"

\* _pick_hunyuan_preset_index was not called
PickIdle ==
    /\ system_stats = None
    /\ pick_ret = Unset

\* the tasks of the TaskQueue and the consumers of its queue
NTasks == 2
TaskIds == 1..NTasks
NConsumers == 2
Consumers == 1..NConsumers

\* no TaskQueue was constructed
TaskQueueIdle ==
    /\ t_status = [t \in TaskIds |-> "NONE"]
    /\ t_queue = <<>>
    /\ t_sem = 0
    /\ t_waiters = <<>>
    /\ kpc = [c \in Consumers |-> "idle"]
    /\ ktask = [c \in Consumers |-> 0]
    /\ t_cancelled = {}
    /\ t_worked = {}

\* time is counted in twentieths of a second
PerSecond == 20

\* no attempt has failed
BackoffIdle ==
    /\ b_pc = "idle"
    /\ b_attempt = 0
    /\ b_base = 0
    /\ b_max_s = 0
    /\ b_raw = 0
    /\ b_jitter = 0
    /\ b_prev_raw = 0
    /\ b_clock = 0

\* the callers supply observers that return
Init ==
    /\ QueueInit
    /\ on_status = "returns"
    /\ ResolverIdle
    /\ ClientIdle
    /\ PipelineIdle
    /\ PresetIdle
    /\ PickIdle
    /\ TaskQueueIdle
    /\ BackoffIdle

\* ---------------------------------------------------------------- helpers
\* _set_status: job.status = status, then the observer is called
SetStatus(j, s, by) ==
    /\ status' = [status EXCEPT ![j] = s]
    /\ hist' = [hist EXCEPT ![j] = Append(@, [st |-> s, by |-> by])]

Reports(j) == [i \in 1..Len(hist[j]) |-> hist[j][i].st]

RECURSIVE SumLens(_, _)
SumLens(f, S) == IF S = {} THEN 0
                 ELSE LET x == CHOOSE y \in S : TRUE
                      IN Len(f[x]) + SumLens(f, S \ {x})
CancelCallsMade == SumLens(cancel_rets, JobIds)

\* mutant: put() never finds the backlog full
QueueFull_never == FALSE

\* asyncio.Queue.full()
QueueFull == Len(q) >= Maxsize

\* asyncio.Queue.put_nowait: append, count the unfinished task
Put(j) ==
    /\ q' = Append(q, j)
    /\ unfinished' = unfinished + 1

\* mutant: cancel() does not look the id up
Lookup_any(id) == TRUE

\* cancel(): self._jobs.get(job_id)
Lookup(id) == id \in jobs

\* mutant: cancel() forgets to set the event
CancelEventSet_forgotten(id) == cancel_event

\* cancel(): job.cancel_event.set()
CancelEventSet(id) == [cancel_event EXCEPT ![id] = TRUE]

\* _worker_loop: if job.cancel_event.is_set() (the check after q.get())
SkipOnDequeue(j) == cancel_event[j]

\* mutant: no cancel check before an attempt
PreAttemptCancelled_unchecked(j) == FALSE

\* _run_job: if job.cancel_event.is_set() (the check before each attempt)
PreAttemptCancelled(j) == cancel_event[j]

\* mutant: a timed-out attempt is not retried
IsRetryable_nottimeout(exc) == exc \notin {"CancelledError", "timeout"}

\* _is_retryable: False for CancelledError, otherwise (...) or True
IsRetryable(exc) == IF exc = "CancelledError" THEN FALSE ELSE TRUE

\* mutant: the retry test is off by one
ShouldRetry_offbyone(a, exc) == a < MaxRetries /\ IsRetryable(exc)

\* _run_job: attempt <= job.max_retries and self._is_retryable(e)
ShouldRetry(a, exc) == a <= MaxRetries /\ IsRetryable(exc)

\* what one call of Job.on_status can end with
ObserverResults == IF on_status = "raises" THEN {"ok", "Exception"} ELSE {"ok"}

\* mutant: _set_status lets the observer's exception through
SetStatusResult_reraise(r) == r

\* _set_status: try: await job.on_status(...) except Exception: pass
SetStatusResult(r) == IF r = "Exception" THEN "ok" ELSE r

\* the observer's call for job j ended with r
ObserverReturn(j, r) == obs_raised' = [obs_raised EXCEPT ![j] = @ \/ r = "Exception"]

\* ------------------------------------------------------------- enqueue()
\* self._jobs[job.id] = job; await self._set_status(job, QUEUED, ...)
QueueEnqueue(j) ==
    /\ epc[j] = "new"
    /\ jobs' = jobs \cup {j}
    /\ SetStatus(j, QUEUED, "enqueue")
    /\ epc' = [epc EXCEPT ![j] = "status"]
    /\ UNCHANGED <<fixedq, obs_raised, q, unfinished, tasks, stopping, attempt,
                   last_error, cancel_event, wpc, wjob, wcancel, spc, calls,
                   done_cb, error_cb, taken, cancel_rets>>

\* a caller of the queue calls enqueue(job)
EnqueueCall(j) ==
    /\ QueueEnqueue(j)
    /\ UNCHANGED pipevars

\* the observer returned (or raised); await self._q.put(job): put at once when
\* the backlog has room, otherwise suspend as a putter
EnqueueStatusReturn(j) ==
    /\ epc[j] = "status"
    /\ \E r \in ObserverResults :
         /\ ObserverReturn(j, r)
         /\ IF SetStatusResult(r) # "ok"
            THEN \* the exception leaves enqueue(): the job is never put
                 /\ epc' = [epc EXCEPT ![j] = "raised"]
                 /\ UNCHANGED <<q, unfinished>>
            ELSE IF QueueFull
            THEN /\ epc' = [epc EXCEPT ![j] = "putwait"]
                 /\ UNCHANGED <<q, unfinished>>
            ELSE /\ Put(j)
                 /\ epc' = [epc EXCEPT ![j] = "returned"]
    /\ UNCHANGED <<fixed, jobs, tasks, stopping, wpc, wjob, wcancel, spc, taken,
                   cancel_rets, jobvars>>

\* a suspended put() resumes once the backlog has room; enqueue returns job.id
EnqueuePut(j) ==
    /\ epc[j] = "putwait"
    /\ ~QueueFull
    /\ Put(j)
    /\ epc' = [epc EXCEPT ![j] = "returned"]
    /\ UNCHANGED <<fixed, obs_raised, jobs, tasks, stopping, wpc, wjob, wcancel, spc, taken,
                   cancel_rets, jobvars>>

\* --------------------------------------------------------------- cancel()
QueueCancel(id) ==
    /\ CancelCallsMade < MaxCancelCalls
    /\ IF ~Lookup(id)
       THEN /\ cancel_rets' = [cancel_rets EXCEPT ![id] = Append(@, FALSE)]
            /\ UNCHANGED <<cancel_event, status, hist, obs_raised>>
       ELSE /\ cancel_event' = CancelEventSet(id)
            /\ SetStatus(id, CANCELED, "cancel")
            /\ \E r \in ObserverResults :
                 /\ ObserverReturn(id, r)
                 /\ cancel_rets' = [cancel_rets EXCEPT ![id] =
                        Append(@, IF SetStatusResult(r) = "ok" THEN TRUE ELSE "raised")]
    /\ UNCHANGED <<fixedq, jobs, q, unfinished, tasks, stopping, attempt, last_error,
                   wpc, wjob, wcancel, epc, spc, calls, done_cb, error_cb, taken>>

\* a caller of the queue calls cancel(job_id)
Cancel(id) ==
    /\ QueueCancel(id)
    /\ UNCHANGED pipevars

\* ---------------------------------------------------------------- workers
\* _run_job, top of the for loop: job.attempt = attempt; the cancel check;
\* then _set_status(RUNNING) inside the try
RunAttempt(w, j, a) ==
    /\ attempt' = [attempt EXCEPT ![j] = a]
    /\ IF PreAttemptCancelled(j)
       THEN /\ SetStatus(j, CANCELED, "worker")
            /\ wpc' = [wpc EXCEPT ![w] = "pre_st"]
       ELSE /\ SetStatus(j, RUNNING, "worker")
            /\ wpc' = [wpc EXCEPT ![w] = "run_st"]

\* _worker_loop: job = q.get() returned a job; the skip check; _run_job(job)
TakeJob(w) ==
    LET j == Head(q) IN
    /\ q' = Tail(q)
    /\ taken' = [taken EXCEPT ![j] = TRUE]
    /\ wjob' = [wjob EXCEPT ![w] = j]
    /\ IF SkipOnDequeue(j)
       THEN /\ SetStatus(j, CANCELED, "worker")
            /\ wpc' = [wpc EXCEPT ![w] = "skip_st"]
            /\ UNCHANGED attempt
       ELSE RunAttempt(w, j, 1)
    /\ UNCHANGED <<last_error, cancel_event, calls, done_cb, error_cb>>

\* mutant: the worker ends after its first job
LoopTop_once(w) ==
    /\ unfinished' = unfinished - 1
    /\ wpc' = [wpc EXCEPT ![w] = "exit"]
    /\ wjob' = [wjob EXCEPT ![w] = 0]
    /\ UNCHANGED <<q, taken, jobvars>>

\* _worker_loop: finally: q.task_done(); then the loop condition and q.get()
LoopTop(w) ==
    /\ unfinished' = unfinished - 1
    /\ IF stopping
       THEN /\ wpc' = [wpc EXCEPT ![w] = "exit"]
            /\ wjob' = [wjob EXCEPT ![w] = 0]
            /\ UNCHANGED <<q, taken, jobvars>>
       ELSE IF q = <<>>
       THEN /\ wpc' = [wpc EXCEPT ![w] = "get"]
            /\ wjob' = [wjob EXCEPT ![w] = 0]
            /\ UNCHANGED <<q, taken, jobvars>>
       ELSE TakeJob(w)

\* a worker suspended in q.get() is woken by a put
WakeGet(w) ==
    /\ wpc[w] = "get"
    /\ ~wcancel[w]
    /\ q # <<>>
    /\ TakeJob(w)
    /\ UNCHANGED <<fixed, obs_raised, jobs, unfinished, tasks, stopping, wcancel, epc, spc, cancel_rets>>

\* an exception leaves _run_job and _worker_loop through finally:
\* q.task_done(); the worker task ends
WorkerDies(w) ==
    /\ unfinished' = unfinished - 1
    /\ wpc' = [wpc EXCEPT ![w] = "exit"]
    /\ wjob' = [wjob EXCEPT ![w] = 0]
    /\ UNCHANGED <<q, taken, jobvars>>

\* _run_job: except Exception as e: job.last_error = ...; retry or fail
ExceptException(w, j, exc) ==
    /\ last_error' = [last_error EXCEPT ![j] = exc]
    /\ IF ShouldRetry(attempt[j], exc)
       THEN /\ SetStatus(j, RETRYING, "worker")
            /\ wpc' = [wpc EXCEPT ![w] = "retry_st"]
       ELSE /\ SetStatus(j, FAILED, "worker")
            /\ wpc' = [wpc EXCEPT ![w] = "fail_st"]

\* what one call of Job.on_done or Job.on_error can end with
CallbackResults == {"ok", "Exception"}

\* try: await job.on_done(job, result) / job.on_error(job, e)
\* except Exception: pass
CallbackResult_reraise(r) == r
CallbackResult(r) == IF r = "Exception" THEN "ok" ELSE r

\* the job is over for this worker: on_done / on_error returned or raised;
\* return, and _worker_loop goes on
FinishJob(w) ==
    /\ wpc[w] \in {"on_done", "on_error"}
    /\ ~wcancel[w]
    /\ \E r \in CallbackResults :
         IF CallbackResult(r) = "ok" THEN LoopTop(w) ELSE WorkerDies(w)
    /\ UNCHANGED <<fixed, obs_raised, jobs, tasks, stopping, wcancel, epc, spc, cancel_rets>>

\* _set_status(CANCELED) is over (the skip after q.get(), the check before an
\* attempt, or except CancelledError): the job is over for this worker
CancelStatusReturn(w) ==
    /\ wpc[w] \in {"skip_st", "pre_st", "canc_st"}
    /\ ~wcancel[w]
    /\ \E r \in ObserverResults :
         /\ ObserverReturn(wjob[w], r)
         /\ IF SetStatusResult(r) = "ok" THEN LoopTop(w) ELSE WorkerDies(w)
    /\ UNCHANGED <<fixed, jobs, tasks, stopping, wcancel, epc, spc, cancel_rets>>

\* _set_status(RUNNING) is over: the worker function is called
RunStatusReturn(w) ==
    /\ wpc[w] = "run_st"
    /\ ~wcancel[w]
    /\ \E r \in ObserverResults :
         /\ ObserverReturn(wjob[w], r)
         /\ IF SetStatusResult(r) = "ok"
            THEN /\ calls' = [calls EXCEPT ![wjob[w]] = @ + 1]
                 /\ wpc' = [wpc EXCEPT ![w] = "fn"]
                 /\ UNCHANGED <<status, last_error, hist>>
            ELSE /\ ExceptException(w, wjob[w], r)
                 /\ UNCHANGED calls
    /\ UNCHANGED <<fixed, jobs, q, unfinished, tasks, stopping, attempt,
                   cancel_event, wjob, wcancel, epc, spc,
                   done_cb, error_cb, taken, cancel_rets>>

\* the worker function returned, raised, or the per-attempt timeout fired
FnReturn(w, o) ==
    LET j == wjob[w] IN
    /\ wpc[w] = "fn"
    /\ ~wcancel[w]
    /\ IF o = "ok"
       THEN /\ SetStatus(j, DONE, "worker")
            /\ wpc' = [wpc EXCEPT ![w] = "done_st"]
            /\ UNCHANGED last_error
       ELSE ExceptException(w, j, o)
    /\ UNCHANGED <<fixed, obs_raised, jobs, q, unfinished, tasks, stopping, attempt, cancel_event,
                   wjob, wcancel, epc, spc, calls, done_cb, error_cb, taken,
                   cancel_rets>>

\* _set_status(DONE) is over: on_done is called
DoneStatusReturn(w) ==
    /\ wpc[w] = "done_st"
    /\ ~wcancel[w]
    /\ \E r \in ObserverResults :
         /\ ObserverReturn(wjob[w], r)
         /\ IF SetStatusResult(r) = "ok"
            THEN /\ done_cb' = [done_cb EXCEPT ![wjob[w]] = @ + 1]
                 /\ wpc' = [wpc EXCEPT ![w] = "on_done"]
                 /\ UNCHANGED <<status, last_error, hist>>
            ELSE /\ ExceptException(w, wjob[w], r)
                 /\ UNCHANGED done_cb
    /\ UNCHANGED <<fixed, jobs, q, unfinished, tasks, stopping, attempt,
                   cancel_event, wjob, wcancel, epc, spc,
                   calls, error_cb, taken, cancel_rets>>

\* _set_status(FAILED) is over: on_error is called
FailStatusReturn(w) ==
    /\ wpc[w] = "fail_st"
    /\ ~wcancel[w]
    /\ \E r \in ObserverResults :
         /\ ObserverReturn(wjob[w], r)
         /\ IF SetStatusResult(r) = "ok"
            THEN /\ error_cb' = [error_cb EXCEPT ![wjob[w]] = @ + 1]
                 /\ wpc' = [wpc EXCEPT ![w] = "on_error"]
                 /\ UNCHANGED <<q, unfinished, wjob, taken, status, attempt, last_error,
                                cancel_event, hist, calls, done_cb>>
            ELSE WorkerDies(w)
    /\ UNCHANGED <<fixed, jobs, tasks, stopping, wcancel, epc, spc, cancel_rets>>

\* mutant: after a failed attempt the worker goes on to the next job
RetryStatusReturn_nextjob(w) ==
    /\ wpc[w] = "retry_st"
    /\ ~wcancel[w]
    /\ LoopTop(w)
    /\ UNCHANGED <<fixed, obs_raised, jobs, tasks, stopping, wcancel, epc, spc, cancel_rets>>

\* _set_status(RETRYING) is over: _sleep_backoff
RetryStatusReturn(w) ==
    /\ wpc[w] = "retry_st"
    /\ ~wcancel[w]
    /\ \E r \in ObserverResults :
         /\ ObserverReturn(wjob[w], r)
         /\ IF SetStatusResult(r) = "ok"
            THEN /\ wpc' = [wpc EXCEPT ![w] = "sleep"]
                 /\ UNCHANGED <<q, unfinished, wjob, taken, jobvars>>
            ELSE WorkerDies(w)
    /\ UNCHANGED <<fixed, jobs, tasks, stopping, wcancel, epc, spc, cancel_rets>>

\* the backoff sleep is over: continue, the next iteration of the for loop
SleepReturn(w) ==
    /\ wpc[w] = "sleep"
    /\ ~wcancel[w]
    /\ RunAttempt(w, wjob[w], attempt[wjob[w]] + 1)
    /\ UNCHANGED <<fixed, obs_raised, jobs, q, unfinished, tasks, stopping, last_error,
                   cancel_event, wjob, wcancel, epc, spc, calls, done_cb,
                   error_cb, taken, cancel_rets>>

\* CancelledError is thrown into the worker at the await it is suspended in
CancelDeliver(w) ==
    /\ wcancel[w]
    /\ wcancel' = [wcancel EXCEPT ![w] = FALSE]
    /\ IF wpc[w] \in {"run_st", "fn", "done_st", "on_done"}
       THEN \* inside the try of _run_job: except asyncio.CancelledError
            /\ SetStatus(wjob[w], CANCELED, "worker")
            /\ wpc' = [wpc EXCEPT ![w] = "canc_st"]
            /\ UNCHANGED <<unfinished, wjob>>
       ELSE \* q.get(): break.  Anywhere else the error leaves _run_job and
            \* the loop through finally: q.task_done()
            /\ wpc' = [wpc EXCEPT ![w] = "exit"]
            /\ wjob' = [wjob EXCEPT ![w] = 0]
            /\ unfinished' = IF wpc[w] = "get" THEN unfinished ELSE unfinished - 1
            /\ UNCHANGED <<status, hist>>
    /\ UNCHANGED <<fixed, obs_raised, jobs, q, tasks, stopping, attempt, last_error, cancel_event,
                   epc, spc, calls, done_cb, error_cb, taken, cancel_rets>>

\* ------------------------------------------------------- start() / stop()
\* start(): for i in range(self._cfg.concurrency)
WorkerRange == 0..(concurrency - 1)

\* main.py calls start() at startup and stop() at shutdown
Start ==
    /\ spc = "idle"
    /\ IF tasks # {}
       THEN UNCHANGED <<tasks, stopping, wpc>>
       ELSE /\ stopping' = FALSE
            /\ tasks' = WorkerRange
            /\ wpc' = [w \in WorkerIds |-> IF w \in WorkerRange THEN "get" ELSE "none"]
    /\ UNCHANGED <<fixed, obs_raised, jobs, q, unfinished, wjob, wcancel, epc, spc, taken,
                   cancel_rets, jobvars>>

\* self._stopping.set(); t.cancel() for every task; await gather(...)
StopCall ==
    /\ spc = "idle"
    /\ tasks # {}
    /\ stopping' = TRUE
    /\ wcancel' = [w \in WorkerIds |-> w \in tasks /\ wpc[w] # "exit"]
    /\ spc' = "gather"
    /\ UNCHANGED <<fixed, obs_raised, jobs, q, unfinished, tasks, wpc, wjob, epc, taken,
                   cancel_rets, jobvars>>

\* every task has ended: self._tasks.clear()
StopReturn ==
    /\ spc = "gather"
    /\ \A w \in tasks : wpc[w] = "exit"
    /\ tasks' = {}
    /\ wpc' = [w \in WorkerIds |-> "none"]
    /\ spc' = "done"
    /\ UNCHANGED <<fixed, obs_raised, jobs, q, unfinished, stopping, wjob, wcancel, epc, taken,
                   cancel_rets, jobvars>>

\* ------------------------------------------------------------------- Next
Next ==
    \/ \E j \in JobIds : EnqueueCall(j)
    \/ \E j \in JobIds : EnqueueStatusReturn(j)
    \/ \E j \in JobIds : EnqueuePut(j)
    \/ \E id \in JobIds : Cancel(id)
    \/ \E w \in WorkerIds : WakeGet(w)
    \/ \E w \in WorkerIds : FinishJob(w)
    \/ \E w \in WorkerIds : CancelStatusReturn(w)
    \/ \E w \in WorkerIds : RunStatusReturn(w)
    \/ \E w \in WorkerIds, o \in Outcomes : FnReturn(w, o)
    \/ \E w \in WorkerIds : DoneStatusReturn(w)
    \/ \E w \in WorkerIds : FailStatusReturn(w)
    \/ \E w \in WorkerIds : RetryStatusReturn(w)
    \/ \E w \in WorkerIds : SleepReturn(w)
    \/ \E w \in WorkerIds : CancelDeliver(w)
    \/ Start
    \/ StopCall
    \/ StopReturn

Spec == Init /\ [][Next]_vars

\* The queue while it is not stopped: the event loop runs every task that is
\* ready, the observer and the callbacks return, and every call of the worker
\* function ends (asyncio.timeout ends it at the latest).
WorkerNext(w) ==
    \/ WakeGet(w)
    \/ FinishJob(w)
    \/ CancelStatusReturn(w)
    \/ RunStatusReturn(w)
    \/ \E o \in Outcomes : FnReturn(w, o)
    \/ DoneStatusReturn(w)
    \/ FailStatusReturn(w)
    \/ RetryStatusReturn(w)
    \/ SleepReturn(w)

EnqueueNext(j) == EnqueueStatusReturn(j) \/ EnqueuePut(j)

NextLive ==
    \/ \E j \in JobIds : EnqueueCall(j)
    \/ \E j \in JobIds : EnqueueNext(j)
    \/ \E id \in JobIds : Cancel(id)
    \/ \E w \in WorkerIds : WorkerNext(w)
    \/ Start

LiveSpec ==
    /\ Init
    /\ [][NextLive]_vars
    /\ \A w \in WorkerIds : WF_vars(WorkerNext(w))
    /\ \A j \in JobIds : WF_vars(EnqueueNext(j))

\* The same queue with observers that may raise on any report
ObsInit ==
    /\ QueueInit
    /\ on_status = "raises"
    /\ ResolverIdle
    /\ ClientIdle
    /\ PipelineIdle
    /\ PresetIdle
    /\ PickIdle
    /\ TaskQueueIdle
    /\ BackoffIdle

ObsLiveSpec ==
    /\ ObsInit
    /\ [][NextLive]_vars
    /\ \A w \in WorkerIds : WF_vars(WorkerNext(w))
    /\ \A j \in JobIds : WF_vars(EnqueueNext(j))

\* ============================================ comfy/client.py: the resolver
\* A JSON object is a function from its keys; an object whose order of keys
\* the code follows (outputs) is the sequence of its [id, out] entries.  A
\* filename is [stem, ext]: "a.mp4" is [stem |-> "a", ext |-> "mp4"].
MaxNodes == 2          \* nodes in one outputs map
MaxSlotsPerNode == 2   \* output slots one node fills
NodeIds == <<"9", "12", "15">>
Exts == {"mp4", "MP4", "gif", "png", "txt"}
Sizes == {0, 1}

\* key in dict
Has(d, k) == k \in DOMAIN d

\* str.lower() on the extensions in use
Lower(e) == IF e = "MP4" THEN "mp4" ELSE e

\* mutant: still images rank above everything
GetFilePriority_imagefirst(filename) ==
    IF filename # None /\ Lower(filename.ext) \in {"png", "jpg", "jpeg", "webp", "bmp"}
    THEN 0 ELSE 3

\* _get_file_priority: smaller is better
GetFilePriority(filename) ==
    LET ext == IF filename = None THEN "" ELSE Lower(filename.ext) IN
    IF ext \in {"mp4", "webm", "mov", "avi", "mkv"} THEN 0
    ELSE IF ext = "gif" THEN 1
    ELSE IF ext \in {"png", "jpg", "jpeg", "webp", "bmp"} THEN 2
    ELSE 3

\* the keys of a node's output the resolver reads, in its order
OutputKeys == <<"videos", "gifs", "images", "files">>

\* fn = it.get("filename")
GetFilename(it) == IF Has(it, "filename") THEN it.filename ELSE None

\* if fn: (a filename that is present is not empty)
Truthy_any(fn) == TRUE
Truthy(fn) == fn # None

\* for it in items: candidates.append({...}) if it has a filename
RECURSIVE ItemCandidates(_, _, _)
ItemCandidates(node_id, key, items) ==
    IF items = <<>> THEN <<>>
    ELSE LET it == Head(items)
             fn == GetFilename(it)
             cand == [node_id |-> node_id, filename |-> fn,
                      size |-> IF Has(it, "size") THEN it.size ELSE 0, key |-> key]
         IN (IF Truthy(fn) THEN <<cand>> ELSE <<>>)
                \o ItemCandidates(node_id, key, Tail(items))

\* for key in ("videos", "gifs", "images", "files"): items = out.get(key)
RECURSIVE KeyCandidates(_, _, _)
KeyCandidates(node_id, out, keys) ==
    IF keys = <<>> THEN <<>>
    ELSE (IF Has(out, Head(keys))
          THEN ItemCandidates(node_id, Head(keys), out[Head(keys)])
          ELSE <<>>)
             \o KeyCandidates(node_id, out, Tail(keys))

\* for node_id, out in outputs.items()
RECURSIVE Candidates(_)
Candidates(nodes) ==
    IF nodes = <<>> THEN <<>>
    ELSE KeyCandidates(Head(nodes).id, Head(nodes).out, OutputKeys)
             \o Candidates(Tail(nodes))

\* mutant: the sort ignores the size
SortKey_nosize(c) == <<GetFilePriority(c.filename), 0>>

\* key=lambda x: (self._get_file_priority(x["filename"]), -x["size"])
SortKey(c) == <<GetFilePriority(c.filename), 0 - c.size>>

\* the order of the key tuples
KeyLess(a, b) == a[1] < b[1] \/ (a[1] = b[1] /\ a[2] < b[2])

\* list.sort is stable: an element stays before the later ones of equal key
RECURSIVE InsertByKey(_, _)
InsertByKey(c, sorted) ==
    IF sorted = <<>> THEN <<c>>
    ELSE IF KeyLess(SortKey(Head(sorted)), SortKey(c))
         THEN <<Head(sorted)>> \o InsertByKey(c, Tail(sorted))
         ELSE <<c>> \o sorted
RECURSIVE SortCandidates(_)
SortCandidates(cands) ==
    IF cands = <<>> THEN <<>>
    ELSE InsertByKey(Head(cands), SortCandidates(Tail(cands)))

\* _extract_first_file(history)
ExtractFirstFile(history) ==
    IF DOMAIN history = {} THEN None
    ELSE LET outputs == IF ~Has(history, "outputs")
                           \/ (history.outputs.isdict /\ history.outputs.nodes = <<>>)
                        THEN [isdict |-> TRUE, nodes |-> <<>>]
                        ELSE history.outputs
         IN IF ~outputs.isdict THEN None
            ELSE LET candidates == Candidates(outputs.nodes) IN
                 IF candidates = <<>> THEN None
                 ELSE LET best == Head(SortCandidates(candidates))
                      IN [node_id |-> best.node_id, filename |-> best.filename]

\* ---- the history items the resolver is applied to
\* one entry of a slot's list: with or without a filename
FileShapes == (Exts \X Sizes) \cup {<<"nofilename", 0>>}
MakeItem(key, shape) ==
    IF shape[1] = "nofilename" THEN [size |-> shape[2]]
    ELSE [filename |-> [stem |-> key, ext |-> shape[1]], size |-> shape[2]]
SlotSets == {S \in SUBSET {"videos", "gifs", "images", "files"} : Cardinality(S) <= MaxSlotsPerNode}
\* what one node can carry: each slot it fills lists one entry
Outs == UNION {{[k \in S |-> <<MakeItem(k, g[k])>>] : g \in [S -> FileShapes]} : S \in SlotSets}
\* an outputs map of n nodes, in the order of the payload
MakeOutputs(n, o) ==
    [isdict |-> TRUE, nodes |-> [i \in 1..n |-> [id |-> NodeIds[i], out |-> o[i]]]]
\* items without an outputs map, or with one that is not an object
OddPayloads == {EmptyDict, [status |-> "s"], [outputs |-> [isdict |-> FALSE], status |-> "s"]}

ResolverInit ==
    /\ QueueInit
    /\ concurrency = 1
    /\ on_status = "returns"
    /\ \/ payload \in OddPayloads
       \/ \E n \in 0..MaxNodes : \E o \in [1..n -> Outs] :
              payload = [outputs |-> MakeOutputs(n, o), status |-> "s"]
    /\ resolved = Unset
    /\ ClientIdle
    /\ PipelineIdle
    /\ PresetIdle
    /\ PickIdle
    /\ TaskQueueIdle
    /\ BackoffIdle

\* f = self._extract_first_file(history_item)
Resolve ==
    /\ resolved = Unset
    /\ resolved' = ExtractFirstFile(payload)
    /\ UNCHANGED <<payload, queuevars, clientvars, pipevars, presetvars, pickvars, taskvars, backoffvars>>

ResolverSpec == ResolverInit /\ [][Resolve]_vars

\* ============================= comfy/client.py: the gateway and the waiter
\* One task submits a workflow and waits for its result, as _run_image_job
\* does: pid = await client.queue_prompt(wf); if not pid: raise RuntimeError;
\* result = await client.wait_for_result(pid, timeout).  Each action runs the
\* task from one await to the next.  Time passes in the sleeps only.

Timeout == 14          \* wait_for_result's timeout in seconds (600 by default; small here)
HistoryRetry == 5      \* history_retry
QueueCheckAfter == 3   \* the queue is asked once check_count exceeds it
ViewAttempts == 3      \* view_bytes: for attempt in range(3)
ResolveRetries == 2    \* resolve_outputs(h, prompt_id, retries=2, ...)
ResolveDelay == 1      \* ... delay_sec=1.0
ViewDelay == 1         \* view_bytes: asyncio.sleep(1.0) after a failed request
GraceDelay == 2        \* asyncio.sleep(2.0) before an empty-history retry
PollSec == 1           \* poll_sec

\* the identifier the engine gives to the submission
PromptId == "p1"

\* ---- what the engine or the network answers to one request: an exception
\* raised by the HTTP client, a non-success status, or a 200 with a body
Failures == {[exception |-> "ConnectError"],
             [status_code |-> 400, text |-> "reason"],
             [status_code |-> 500, text |-> ""]}
IsException(resp) == Has(resp, "exception")
\* POST /prompt
PostResponses ==
    Failures \cup {[status_code |-> 200, json |-> d] :
                      d \in {[prompt_id |-> PromptId], [prompt_id |-> ""], EmptyDict}}
\* GET /history/{prompt_id}: no entry yet, an entry without outputs, an entry
\* with an output file, and an answer that also has an outputs map of its own
NoOutputs == MakeOutputs(0, <<>>)
OneImage == MakeOutputs(1, <<[images |-> <<MakeItem("images", <<"png", 1>>)>>]>>)
Entry(outputs) == [outputs |-> outputs, status |-> [status_str |-> "success"]]
HistoryJsons ==
    {EmptyDict,
     [k \in {PromptId} |-> Entry(NoOutputs)],
     [k \in {PromptId} |-> Entry(OneImage)],
     [k \in {PromptId, "outputs"} |-> IF k = "outputs" THEN OneImage ELSE Entry(OneImage)]}
HistoryResponses == Failures \cup {[status_code |-> 200, json |-> d] : d \in HistoryJsons}
\* GET /queue: the submission running, pending, or in neither list
QueueJsons ==
    {[queue_running |-> <<<<0, PromptId>>>>, queue_pending |-> <<>>],
     [queue_running |-> <<>>, queue_pending |-> <<<<1, PromptId>>>>],
     [queue_running |-> <<>>, queue_pending |-> <<>>]}
QueueResponses == Failures \cup {[status_code |-> 200, json |-> d] : d \in QueueJsons}
\* GET /view
ViewResponses == Failures \cup {[status_code |-> 200, content |-> b] : b \in {"bytes", ""}}

\* ---- the gateway
\* _summarize_prompt_error(body) of a body that is not JSON: (body or "")[:350]
SummarizePromptError(body) == body

\* queue_prompt after self.last_error = None: what it returns and what it
\* leaves in self.last_error; no path of it raises
QueuePromptResult_noreason(resp) ==
    IF IsException(resp) THEN [ret |-> "", last_error |-> resp.exception]
    ELSE IF resp.status_code # 200
         THEN [ret |-> "", last_error |-> "None"]
         ELSE [ret |-> IF Has(resp.json, "prompt_id") THEN resp.json.prompt_id ELSE "",
               last_error |-> "None"]
QueuePromptResult(resp) ==
    IF IsException(resp) THEN [ret |-> "", last_error |-> resp.exception]
    ELSE IF resp.status_code # 200
         THEN [ret |-> "", last_error |-> SummarizePromptError(resp.text)]
         ELSE [ret |-> IF Has(resp.json, "prompt_id") THEN resp.json.prompt_id ELSE "",
               last_error |-> "None"]

\* history(prompt_id)
History(resp) ==
    IF ~IsException(resp) /\ resp.status_code = 200 THEN resp.json ELSE EmptyDict

\* get_queue_status()
GetQueueStatus(resp) ==
    IF ~IsException(resp) /\ resp.status_code = 200 THEN resp.json ELSE EmptyDict

\* view_bytes: r.raise_for_status() passed
ViewOk(resp) == ~IsException(resp) /\ resp.status_code < 400

\* view_bytes: for attempt in range(3) has another round
ViewRetryLeft_four(a) == a + 1 < ViewAttempts + 1
ViewRetryLeft(a) == a + 1 < ViewAttempts

\* ---- the waiter
\* h.get(prompt_id) (and isinstance(h[prompt_id], dict))
HasEntry(hh, pid) == Has(hh, pid) /\ DOMAIN hh[pid] # {}
\* ... and h[prompt_id].get("outputs", {}) is not empty
EntryHasOutputs(hh, pid) ==
    /\ HasEntry(hh, pid)
    /\ Has(hh[pid], "outputs")
    /\ hh[pid].outputs.nodes # <<>>

\* prompt_in_queue
PromptInQueue(queue_status, pid) ==
    LET queue_running == IF Has(queue_status, "queue_running")
                         THEN queue_status.queue_running ELSE <<>>
        queue_pending == IF Has(queue_status, "queue_pending")
                         THEN queue_status.queue_pending ELSE <<>>
        items == queue_running \o queue_pending
    IN \E i \in DOMAIN items : Len(items[i]) >= 2 /\ items[i][2] = pid

\* if empty_history_retries < history_retry
GraceLeft_one(n) == n < 1
GraceLeft(n) == n < HistoryRetry

\* while loop.time() < deadline: check_count += 1; h = await self.history(...)
\* and after the loop: self.last_error = "Timeout ..."; return None
WaitLoop_sametime(t) ==
    /\ now' = now
    /\ IF now < Timeout
       THEN /\ check_count' = check_count + 1
            /\ cpc' = "history"
            /\ UNCHANGED <<client_last_error, wait_ret>>
       ELSE /\ client_last_error' = "Timeout"
            /\ wait_ret' = None
            /\ cpc' = "returned"
            /\ UNCHANGED check_count
WaitLoop(t) ==
    /\ now' = t
    /\ IF t < Timeout
       THEN /\ check_count' = check_count + 1
            /\ cpc' = "history"
            /\ UNCHANGED <<client_last_error, wait_ret>>
       ELSE /\ client_last_error' = "Timeout"
            /\ wait_ret' = None
            /\ cpc' = "returned"
            /\ UNCHANGED check_count

\* if check_count > 3: queue_status = await self.get_queue_status()
\* otherwise the tick ends: await asyncio.sleep(poll_sec)
QueueCheckOrSleep_always == cpc' = "queue"
QueueCheckOrSleep ==
    cpc' = IF check_count > QueueCheckAfter THEN "queue" ELSE "poll"

\* resolve_outputs(history_item, ...), round k, and what follows it in the
\* waiter: view_bytes when a file was found
ResolveOutputs(history_item, k) ==
    LET found == ExtractFirstFile(history_item) IN
    /\ res_attempt' = k
    /\ IF found # None
       THEN /\ file_f' = found
            /\ vb' = [attempt |-> 0, requests |-> 1, failures |-> 0, resp |-> None]
            /\ cpc' = "view"
       ELSE IF k < ResolveRetries
            THEN /\ cpc' = "resolve_sleep"
                 /\ UNCHANGED <<file_f, vb>>
            ELSE /\ file_f' = None
                 /\ QueueCheckOrSleep
                 /\ UNCHANGED vb

\* pid = await client.queue_prompt(wf): up to the POST
QueuePromptCall ==
    /\ cpc = "idle"
    /\ client_last_error' = "None"
    /\ cpc' = "post"
    /\ UNCHANGED <<prompt_id, history_h, file_f, check_count, empty_history_retries,
                   now, res_attempt, vb, gw, wait_ret, last_err>>
    /\ UNCHANGED <<queuevars, resolvervars, pipevars, presetvars, pickvars, taskvars, backoffvars>>

\* the POST ends; the caller raises on an empty handle, and otherwise calls
\* wait_for_result, which runs up to its first history()
QueuePromptReturn(resp) ==
    /\ cpc = "post"
    /\ LET res == QueuePromptResult(resp) IN
       /\ prompt_id' = res.ret
       /\ gw' = [call |-> "queue_prompt", resp |-> resp, ret |-> res.ret, raised |-> FALSE]
       /\ IF res.ret = ""
          THEN /\ client_last_error' = res.last_error
               /\ cpc' = "rejected"
               /\ UNCHANGED <<check_count, now, wait_ret>>
          ELSE WaitLoop(0)
    /\ UNCHANGED <<history_h, file_f, empty_history_retries, res_attempt, vb, last_err>>
    /\ UNCHANGED <<queuevars, resolvervars, pipevars, presetvars, pickvars, taskvars, backoffvars>>

\* h = await self.history(prompt_id) ends
HistoryReturn(resp) ==
    /\ cpc = "history"
    /\ LET ret == History(resp) IN
       /\ gw' = [call |-> "history", resp |-> resp, ret |-> ret, raised |-> FALSE]
       /\ history_h' = ret
       /\ IF EntryHasOutputs(ret, prompt_id)
          THEN ResolveOutputs(ret, 0)
          ELSE /\ QueueCheckOrSleep
               /\ UNCHANGED <<file_f, res_attempt, vb>>
    /\ UNCHANGED <<prompt_id, client_last_error, check_count, empty_history_retries,
                   now, wait_ret, last_err>>
    /\ UNCHANGED <<queuevars, resolvervars, pipevars, presetvars, pickvars, taskvars, backoffvars>>

\* resolve_outputs: await asyncio.sleep(delay_sec) ends
ResolveSleepReturn ==
    /\ cpc = "resolve_sleep"
    /\ now' = now + ResolveDelay
    /\ ResolveOutputs(history_h, res_attempt + 1)
    /\ UNCHANGED <<prompt_id, client_last_error, history_h, check_count,
                   empty_history_retries, gw, wait_ret, last_err>>
    /\ UNCHANGED <<queuevars, resolvervars, pipevars, presetvars, pickvars, taskvars, backoffvars>>

\* view_bytes: one GET /view ends
ViewReturn(resp) ==
    /\ cpc = "view"
    /\ IF ViewOk(resp)
       THEN /\ vb' = [vb EXCEPT !.resp = resp]
            /\ gw' = [call |-> "view_bytes", resp |-> resp, ret |-> resp.content,
                      raised |-> FALSE, requests |-> vb.requests, failures |-> vb.failures]
            /\ IF resp.content # ""
               THEN /\ wait_ret' = [filename |-> file_f.filename, bytes |-> resp.content,
                                    node_id |-> file_f.node_id]
                    /\ cpc' = "returned"
               ELSE /\ QueueCheckOrSleep
                    /\ UNCHANGED wait_ret
       ELSE /\ vb' = [vb EXCEPT !.failures = @ + 1, !.resp = resp]
            /\ cpc' = "view_sleep"
            /\ UNCHANGED <<gw, wait_ret>>
    /\ UNCHANGED <<prompt_id, client_last_error, history_h, file_f, check_count,
                   empty_history_retries, now, res_attempt, last_err>>
    /\ UNCHANGED <<queuevars, resolvervars, pipevars, presetvars, pickvars, taskvars, backoffvars>>

\* view_bytes: asyncio.sleep(1.0) ends; the next request, or raise last_err,
\* which the waiter's except Exception catches
ViewSleepReturn ==
    /\ cpc = "view_sleep"
    /\ now' = now + ViewDelay
    /\ IF ViewRetryLeft(vb.attempt)
       THEN /\ vb' = [vb EXCEPT !.attempt = @ + 1, !.requests = @ + 1]
            /\ cpc' = "view"
            /\ UNCHANGED <<gw, last_err>>
       ELSE /\ gw' = [call |-> "view_bytes", resp |-> vb.resp, ret |-> None,
                      raised |-> TRUE, requests |-> vb.requests, failures |-> vb.failures]
            /\ last_err' = "error"
            /\ cpc' = "poll"
            /\ UNCHANGED vb
    /\ UNCHANGED <<prompt_id, client_last_error, history_h, file_f, check_count,
                   empty_history_retries, res_attempt, wait_ret>>
    /\ UNCHANGED <<queuevars, resolvervars, pipevars, presetvars, pickvars, taskvars, backoffvars>>

\* queue_status = await self.get_queue_status() ends
QueueReturn(resp) ==
    /\ cpc = "queue"
    /\ LET queue_status == GetQueueStatus(resp) IN
       /\ gw' = [call |-> "get_queue_status", resp |-> resp, ret |-> queue_status,
                 raised |-> FALSE]
       /\ IF PromptInQueue(queue_status, prompt_id)
          THEN /\ cpc' = "poll"
               /\ UNCHANGED <<empty_history_retries, client_last_error, wait_ret>>
          ELSE IF ~HasEntry(history_h, prompt_id)
               THEN IF GraceLeft(empty_history_retries)
                    THEN /\ empty_history_retries' = empty_history_retries + 1
                         /\ cpc' = "grace"
                         /\ UNCHANGED <<client_last_error, wait_ret>>
                    ELSE /\ client_last_error' = "completed without outputs"
                         /\ wait_ret' = None
                         /\ cpc' = "returned"
                         /\ UNCHANGED empty_history_retries
               ELSE /\ client_last_error' = "completed with status but no outputs"
                    /\ wait_ret' = None
                    /\ cpc' = "returned"
                    /\ UNCHANGED empty_history_retries
    /\ UNCHANGED <<prompt_id, history_h, file_f, check_count, now, res_attempt, vb, last_err>>
    /\ UNCHANGED <<queuevars, resolvervars, pipevars, presetvars, pickvars, taskvars, backoffvars>>

\* await asyncio.sleep(2.0) ends; continue
GraceReturn ==
    /\ cpc = "grace"
    /\ WaitLoop(now + GraceDelay)
    /\ UNCHANGED <<prompt_id, history_h, file_f, empty_history_retries, res_attempt,
                   vb, gw, last_err>>
    /\ UNCHANGED <<queuevars, resolvervars, pipevars, presetvars, pickvars, taskvars, backoffvars>>

\* await asyncio.sleep(poll_sec) ends
PollReturn ==
    /\ cpc = "poll"
    /\ WaitLoop(now + PollSec)
    /\ UNCHANGED <<prompt_id, history_h, file_f, empty_history_retries, res_attempt,
                   vb, gw, last_err>>
    /\ UNCHANGED <<queuevars, resolvervars, pipevars, presetvars, pickvars, taskvars, backoffvars>>

ClientInit ==
    /\ QueueInit
    /\ concurrency = 1
    /\ on_status = "returns"
    /\ ResolverIdle
    /\ ClientIdle
    /\ PipelineIdle
    /\ PresetIdle
    /\ PickIdle
    /\ TaskQueueIdle
    /\ BackoffIdle

ClientNext ==
    \/ QueuePromptCall
    \/ \E resp \in PostResponses : QueuePromptReturn(resp)
    \/ \E resp \in HistoryResponses : HistoryReturn(resp)
    \/ ResolveSleepReturn
    \/ \E resp \in ViewResponses : ViewReturn(resp)
    \/ ViewSleepReturn
    \/ \E resp \in QueueResponses : QueueReturn(resp)
    \/ GraceReturn
    \/ PollReturn

ClientSpec == ClientInit /\ [][ClientNext]_vars

\* the event loop resumes the task whenever the call it awaits has ended, and
\* every request ends: with an answer, or with the HTTP client's timeout
ClientLiveSpec == ClientInit /\ [][ClientNext]_vars /\ WF_vars(ClientNext)

\* ======================== core/telegram_pipeline.py: TelegramComfyPipeline
\* The handlers of /image, /video and /cancel call enqueue_from_message and
\* cancel_last; the queue behind them is the one above.  Job j is the job
\* the j-th call of enqueue_from_message creates.

\* self._user_last_job.get(user_id)
LastJobOf_other(u) == IF \E v \in Users : user_last_job[v] # 0
                      THEN user_last_job[CHOOSE v \in Users : user_last_job[v] # 0]
                      ELSE 0
LastJobOf(u) == user_last_job[u]

\* self._user_last_job[job.user_id] = job.id
RecordLast(m, u, j) == [m EXCEPT ![u] = j]

\* what await message.answer(status_text) ends with
AnswerResults == {"ok", "TelegramNetworkError"}

\* enqueue_from_message(message, ...) of user u: up to await message.answer
EnqueueFromMessageCall(j, u) ==
    /\ mpc[j] = "new"
    /\ mpc' = [mpc EXCEPT ![j] = "answer"]
    /\ user_of' = [user_of EXCEPT ![j] = u]
    /\ UNCHANGED <<user_last_job, last_cancel>>
    /\ UNCHANGED <<queuevars, resolvervars, clientvars, presetvars, pickvars, taskvars, backoffvars>>

\* the status message was sent: job = Job(...); the map is written; then
\* self._queue.enqueue(job) up to its first await.  Or the send raised.
MessageAnswerReturn(j) ==
    /\ mpc[j] = "answer"
    /\ \E r \in AnswerResults :
         IF r = "ok"
         THEN /\ user_last_job' = RecordLast(user_last_job, user_of[j], j)
              /\ QueueEnqueue(j)
              /\ mpc' = [mpc EXCEPT ![j] = "enqueue"]
              /\ UNCHANGED <<user_of, last_cancel>>
         ELSE /\ mpc' = [mpc EXCEPT ![j] = "raised"]
              /\ UNCHANGED <<user_of, user_last_job, last_cancel>>
              /\ UNCHANGED <<queuevars, resolvervars, clientvars, presetvars, pickvars, taskvars, backoffvars>>

\* cancel_last(user_id), with the cancel() of the queue it awaits
CancelLast(u) ==
    LET job_id == LastJobOf(u) IN
    IF job_id = 0
    THEN /\ last_cancel' = [user |-> u, job_id |-> 0, ret |-> FALSE]
         /\ UNCHANGED <<mpc, user_of, user_last_job>>
         /\ UNCHANGED <<queuevars, resolvervars, clientvars, presetvars, pickvars, taskvars, backoffvars>>
    ELSE /\ QueueCancel(job_id)
         /\ last_cancel' = [user |-> u, job_id |-> job_id,
                            ret |-> cancel_rets'[job_id][Len(cancel_rets'[job_id])]]
         /\ UNCHANGED <<mpc, user_of, user_last_job>>

PipelineInit ==
    /\ QueueInit
    /\ on_status = "returns"
    /\ ResolverIdle
    /\ ClientIdle
    /\ PipelineIdle
    /\ PresetIdle
    /\ PickIdle
    /\ TaskQueueIdle
    /\ BackoffIdle

\* the names module comfy.client defines
ClientModuleNames == {"asyncio", "mimetypes", "uuid", "time", "Any", "Dict", "Optional",
                      "List", "Iterable", "httpx", "get_logger", "log", "ComfyUIClient"}

\* _worker(job), the worker function of the pipeline's queue: the entry point
\* it finds in comfy.client
WorkerEntryPoint ==
    IF "run_job" \in ClientModuleNames THEN "run_job"
    ELSE IF "ComfyClient" \in ClientModuleNames THEN "ComfyClient"
    ELSE "none"
\* what a call of _worker can end with: with no entry point it raises
\* RuntimeError
PipelineOutcomes == IF WorkerEntryPoint = "none" THEN {"error"} ELSE Outcomes

\* the steps of a worker of the pipeline's queue
PipelineWorkerNext(w) ==
    \/ WakeGet(w)
    \/ FinishJob(w)
    \/ CancelStatusReturn(w)
    \/ RunStatusReturn(w)
    \/ \E o \in PipelineOutcomes : FnReturn(w, o)
    \/ FailStatusReturn(w)
    \/ RetryStatusReturn(w)
    \/ SleepReturn(w)

PipelineNext ==
    \/ \E j \in JobIds, u \in Users : EnqueueFromMessageCall(j, u)
    \/ \E j \in JobIds : MessageAnswerReturn(j)
    \/ \E j \in JobIds : EnqueueNext(j)
    \/ \E u \in Users : CancelLast(u)
    \/ \E w \in WorkerIds : PipelineWorkerNext(w)
    \/ Start

PipelineSpec == PipelineInit /\ [][PipelineNext]_vars

\* ================ bot/handlers/generate.py: the Hunyuan preset attempt loop
\* msg_prompt submits the video workflow with the preset of the start index
\* and, after a failure that looks like memory exhaustion, with the next
\* cheaper one.  The client is the one above: one queue_prompt and one
\* wait_for_result per attempt.  The code that runs between the return of a
\* client call and the next await is an action of its own here (AttemptReturn,
\* AttemptRejected); nothing else runs in between.

\* attempt_indices = list(range(start_idx, -1, -1))
AttemptIndices_same(s) == [k \in 1..(s + 1) |-> s]
AttemptIndices(s) == [k \in 1..(s + 1) |-> s - (k - 1)]

\* the phrases the loop searches for ("out of memory", "cuda oom",
\* "allocation on device", "oom", "not in queue", "without outputs") that
\* occur in text.lower(), for the texts last_error can hold:
\*   "ComfyUI completed prompt without outputs (likely OOM). Check ..."
\*   "Prompt completed with status '...' but no outputs"
\*   "Timeout after ...s (no output from ComfyUI)"
\* and the texts of the failed submissions ("reason", "ConnectError",
\* "CUDA out of memory")
PhrasesIn(text) ==
    IF text = "completed without outputs" THEN {"oom", "without outputs"}
    ELSE IF text = "CUDA out of memory" THEN {"out of memory"}
    ELSE {}

\* _is_oom_error(err)
IsOomError(err) ==
    IF err \in {"None", ""} THEN FALSE
    ELSE PhrasesIn(err) \cap {"out of memory", "cuda oom", "allocation on device", "oom"} # {}

\* the condition under which the loop goes on to a lighter preset
LighterPresetWanted_always(err) == TRUE
LighterPresetWanted(err) ==
    IsOomError(err) \/ "not in queue" \in PhrasesIn(err) \/ "without outputs" \in PhrasesIn(err)

\* the text msg_prompt builds after the loop when result is None and
\* _is_oom_error(err): the out-of-memory notice with its recommendations
\* (restart with --lowvram, close other GPU applications, try later)
DedicatedOomMessage == "OOM notice with recommendations"

\* x or default, for a text
OrText(x, default) == IF x \in {"None", ""} THEN default ELSE x

\* the loop body up to the POST of queue_prompt, for the preset of index pi
SubmitPreset(pi) ==
    /\ submitted' = Append(submitted, pi)
    /\ client_last_error' = "None"
    /\ cpc' = "post"
    /\ history_h' = Unset
    /\ file_f' = Unset
    /\ check_count' = 0
    /\ empty_history_retries' = 0
    /\ now' = 0
    /\ res_attempt' = 0
    /\ vb' = VbIdle
    /\ wait_ret' = Unset
    /\ last_err' = "None"
    /\ UNCHANGED <<prompt_id, gw>>

\* msg_prompt with the start index s chosen, up to the first queue_prompt
PresetLoopStart(s) ==
    /\ ppc = "idle"
    /\ cpc = "idle"
    /\ start_idx' = s
    /\ attempt_i' = 1
    /\ SubmitPreset(AttemptIndices(s)[1])
    /\ ppc' = "attempt"
    /\ UNCHANGED preset_err
    /\ UNCHANGED <<queuevars, resolvervars, pipevars, pickvars, taskvars, backoffvars>>

\* if not prompt_id: raise RuntimeError(err)
AttemptRejected ==
    /\ ppc = "attempt"
    /\ cpc = "rejected"
    /\ preset_err' = OrText(client_last_error, "rejected workflow")
    /\ ppc' = "raised"
    /\ UNCHANGED <<start_idx, attempt_i, submitted>>
    /\ UNCHANGED <<queuevars, resolvervars, clientvars, pipevars, pickvars, taskvars, backoffvars>>

\* wait_for_result has returned: break, continue with the next preset up to
\* its queue_prompt, or raise
AttemptReturn ==
    /\ ppc = "attempt"
    /\ cpc = "returned"
    /\ IF wait_ret # None
       THEN /\ ppc' = "done"
            /\ UNCHANGED <<start_idx, attempt_i, submitted, preset_err>>
            /\ UNCHANGED clientvars
       ELSE LET err == OrText(client_last_error, "unknown error")
                attempt_indices == AttemptIndices(start_idx) IN
            IF LighterPresetWanted(err) /\ attempt_i < Len(attempt_indices)
            THEN /\ attempt_i' = attempt_i + 1
                 /\ SubmitPreset(attempt_indices[attempt_i + 1])
                 /\ UNCHANGED <<ppc, start_idx, preset_err>>
            ELSE /\ preset_err' = err
                 /\ ppc' = "raised"
                 /\ UNCHANGED <<start_idx, attempt_i, submitted>>
                 /\ UNCHANGED clientvars
    /\ UNCHANGED <<queuevars, resolvervars, pipevars, pickvars, taskvars, backoffvars>>

\* POST /prompt as the video job can see it answered: as above, or refused
\* by an engine that is out of memory
OomRejection == [status_code |-> 500, text |-> "CUDA out of memory"]
PresetPostResponses == PostResponses \cup {OomRejection}

PresetInit ==
    /\ QueueInit
    /\ concurrency = 1
    /\ on_status = "returns"
    /\ ResolverIdle
    /\ ClientIdle
    /\ PipelineIdle
    /\ PresetIdle
    /\ PickIdle
    /\ TaskQueueIdle
    /\ BackoffIdle

PresetNext ==
    \/ \E s \in 0..(NPresets - 1) : PresetLoopStart(s)
    \/ \E resp \in PresetPostResponses : QueuePromptReturn(resp)
    \/ \E resp \in HistoryResponses : HistoryReturn(resp)
    \/ ResolveSleepReturn
    \/ \E resp \in ViewResponses : ViewReturn(resp)
    \/ ViewSleepReturn
    \/ \E resp \in QueueResponses : QueueReturn(resp)
    \/ GraceReturn
    \/ PollReturn
    \/ AttemptRejected
    \/ AttemptReturn

PresetSpec == PresetInit /\ [][PresetNext]_vars

\* ============ bot/handlers/generate.py: _pick_hunyuan_preset_index
\* The start preset is chosen from the engine's system_stats.  A memory
\* figure is absent, a text, or a number; a number is written n * scale so
\* that figures in bytes (scale BytesPerMb) stay within TLC's integers.  Of
\* the five key names the code accepts for each figure, one is modelled.
MaxDevices == 2
BytesPerMb == 1048576
BytesGuess == 1073741824
Need480 == 8500
Need720 == 11000

Absent == [kind |-> "absent"]
TextFig == [kind |-> "text"]
Mb(n) == [kind |-> "number", n |-> n, scale |-> 1]
Bytes(n) == [kind |-> "number", n |-> n, scale |-> BytesPerMb]
IsNumber(fig) == fig.kind = "number"

\* the free-memory and total-memory figures a device or the system part
\* can report; the numbers lie around the thresholds of the code
FreeFigures == {Absent, TextFig, Mb(0), Mb(Need480 - 1), Mb(Need480), Mb(Need720 - 1),
                Mb(Need720), Bytes(500), Bytes(1025), Bytes(12288)}
TotalFigures == {Absent, TextFig, Mb(0), Mb(12288), Bytes(12288)}
\* an entry of the devices list: a dict, or something that has no .get
Junk == [junk |-> TRUE]
Devices == {[type |-> ty, vram_total |-> tot, vram_free |-> fr] :
               ty \in {"cuda", "cpu"}, tot \in TotalFigures, fr \in FreeFigures}
SystemParts == {[vram_total |-> Absent, vram_free |-> Absent],
                [vram_total |-> Absent, vram_free |-> Mb(Need480)]}

\* Python's optional int: None or a number
NoInt == [some |-> FALSE]
SomeInt(v) == [some |-> TRUE, v |-> v]
\* Python's truth value of an optional int
TruthyInt(x) == x.some /\ x.v # 0

\* x > 1024 * 1024 * 1024
ExceedsGuess(fig) ==
    IF fig.scale = 1 THEN fig.n > BytesGuess ELSE fig.n > BytesGuess \div BytesPerMb

\* _to_mb(x)
ToMb_textasnumber(fig) ==
    IF fig.kind = "absent" THEN NoInt
    ELSE IF fig.kind = "text" THEN SomeInt(Need720)
    ELSE IF ExceedsGuess(fig)
         THEN SomeInt(IF fig.scale = 1 THEN fig.n \div BytesPerMb ELSE fig.n)
         ELSE SomeInt(fig.n * fig.scale)
ToMb(fig) ==
    IF fig.kind = "absent" THEN NoInt
    ELSE IF fig.kind = "text" THEN NoInt
    ELSE IF ExceedsGuess(fig)
         THEN SomeInt(IF fig.scale = 1 THEN fig.n \div BytesPerMb ELSE fig.n)
         ELSE SomeInt(fig.n * fig.scale)

\* the scan of the devices list: the entries up to the first CUDA device are
\* asked for their type, which raises for an entry that is no dict
IsCuda(d) == d # Junk /\ d.type = "cuda"
ScanRaises(devs) ==
    \E i \in DOMAIN devs :
        /\ devs[i] = Junk
        /\ \A k \in 1..(i - 1) : ~IsCuda(devs[k])
\* cuda_dev: the first CUDA device, else the first device, else None
CudaDev(devs) ==
    IF \E i \in DOMAIN devs : IsCuda(devs[i])
    THEN devs[CHOOSE i \in DOMAIN devs :
                 /\ IsCuda(devs[i])
                 /\ \A k \in 1..(i - 1) : ~IsCuda(devs[k])]
    ELSE IF devs # <<>> THEN devs[1]
    ELSE None

\* for src in [cuda_dev or {}, sys_part]: the figure of the system part
\* replaces the one of the device
Figure(stats, key) ==
    IF stats = None THEN Absent
    ELSE LET cuda_dev == CudaDev(stats.devices) IN
         IF stats.system[key] # Absent THEN stats.system[key]
         ELSE IF cuda_dev = None THEN Absent
         ELSE cuda_dev[key]

\* the thresholds
PresetForBudget(budget) ==
    IF budget >= Need720 THEN 2
    ELSE IF budget >= Need480 THEN 1
    ELSE 0

\* _pick_hunyuan_preset_index(system_stats)
PickHunyuanPresetIndex(stats) ==
    IF stats # None /\ ScanRaises(stats.devices) THEN 0
    ELSE LET vram_total_mb == ToMb(Figure(stats, "vram_total"))
             vram_free_mb == ToMb(Figure(stats, "vram_free"))
             budget == IF TruthyInt(vram_free_mb) THEN vram_free_mb ELSE vram_total_mb
         IN
         IF ~TruthyInt(vram_total_mb) /\ ~TruthyInt(vram_free_mb) THEN 0
         ELSE IF ~budget.some THEN 0
         ELSE PresetForBudget(budget.v)

\* start_idx = _pick_hunyuan_preset_index(system_stats)
PickCall ==
    /\ pick_ret = Unset
    /\ pick_ret' = [ret |-> PickHunyuanPresetIndex(system_stats)]
    /\ UNCHANGED system_stats
    /\ UNCHANGED <<queuevars, resolvervars, clientvars, pipevars, presetvars, taskvars, backoffvars>>

\* the system_stats the engine can answer with; None when the request failed
PickInit ==
    /\ QueueInit
    /\ concurrency = 1
    /\ on_status = "returns"
    /\ ResolverIdle
    /\ ClientIdle
    /\ PipelineIdle
    /\ PresetIdle
    /\ TaskQueueIdle
    /\ BackoffIdle
    /\ pick_ret = Unset
    /\ \/ system_stats = None
       \/ \E sy \in SystemParts : \E n \in 0..MaxDevices :
            \E ds \in [1..n -> Devices \cup {Junk}] :
               system_stats = [system |-> sy, devices |-> ds]

PickSpec == PickInit /\ [][PickCall]_vars

\* ===================== core/job_queue.py: _sleep_backoff and the retry loop
\* One job whose attempts fail: after failed attempt n with n <= max_retries
\* the worker awaits _sleep_backoff(n, base, max_s) and continues with
\* attempt n + 1.  Durations are integers, PerSecond to the second; the
\* random factor is drawn in percent.
MaxAttempt == 6
BackoffBase == 2
BackoffMax == 30
JitterPercents == {15, 20, 25, 30, 35}
RECURSIVE Pow2(_)
Pow2(k) == IF k = 0 THEN 1 ELSE 2 * Pow2(k - 1)
Min(a, b) == IF a <= b THEN a ELSE b
Max(a, b) == IF a >= b THEN a ELSE b

\* raw = min(max_s, base * (2 ** max(0, attempt - 1)))
Raw_uncapped(attempt_, base, max_s) == base * Pow2(Max(0, attempt_ - 1))
Raw(attempt_, base, max_s) == Min(max_s, base * Pow2(Max(0, attempt_ - 1)))
\* jitter = raw * random.uniform(0.15, 0.35), for the factor u percent
Jitter(raw, u) == (raw * u) \div 100

\* attempt n has failed and RETRYING was reported: _sleep_backoff up to its
\* asyncio.sleep(raw + jitter)
SleepBackoffCall ==
    /\ b_pc = "attempt"
    /\ b_attempt < MaxAttempt
    /\ \E u \in JitterPercents :
         LET raw == Raw(b_attempt, b_base, b_max_s) IN
         /\ b_raw' = raw
         /\ b_jitter' = Jitter(raw, u)
    /\ b_prev_raw' = b_raw
    /\ b_clock' = 0
    /\ b_pc' = "sleep"
    /\ UNCHANGED <<b_attempt, b_base, b_max_s>>
    /\ UNCHANGED <<queuevars, resolvervars, clientvars, pipevars, presetvars, pickvars, taskvars>>

\* a second passes while the worker is in asyncio.sleep
BackoffTick ==
    /\ b_pc = "sleep"
    /\ b_clock < b_raw + b_jitter
    /\ b_clock' = b_clock + PerSecond
    /\ UNCHANGED <<b_pc, b_attempt, b_base, b_max_s, b_raw, b_jitter, b_prev_raw>>
    /\ UNCHANGED <<queuevars, resolvervars, clientvars, pipevars, presetvars, pickvars, taskvars>>

\* asyncio.sleep returns, its delay over: continue, job.attempt = attempt
BackoffWake ==
    /\ b_pc = "sleep"
    /\ b_clock >= b_raw + b_jitter
    /\ b_attempt' = b_attempt + 1
    /\ b_pc' = "attempt"
    /\ UNCHANGED <<b_base, b_max_s, b_raw, b_jitter, b_prev_raw, b_clock>>
    /\ UNCHANGED <<queuevars, resolvervars, clientvars, pipevars, presetvars, pickvars, taskvars>>

\* the first attempt of a job with the given backoff parameters
BackoffInit ==
    /\ QueueInit
    /\ concurrency = 1
    /\ on_status = "returns"
    /\ ResolverIdle
    /\ ClientIdle
    /\ PipelineIdle
    /\ PresetIdle
    /\ PickIdle
    /\ TaskQueueIdle
    /\ b_pc = "attempt"
    /\ b_attempt = 1
    /\ b_base \in {PerSecond, BackoffBase * PerSecond}
    /\ b_max_s \in {5 * PerSecond, BackoffMax * PerSecond}
    /\ b_raw = 0
    /\ b_jitter = 0
    /\ b_prev_raw = 0
    /\ b_clock = 0

BackoffNext == SleepBackoffCall \/ BackoffTick \/ BackoffWake

BackoffSpec == BackoffInit /\ [][BackoffNext]_vars

\* ============================================== core/task_queue.py TaskQueue
\* TaskStatus values are written as their names; "NONE" is a task id that
\* add_task has not created.  A consumer is one running process_queue
\* coroutine: "idle" not started, "get" suspended in queue.get(), "acquire"
\* suspended in the semaphore, "granted" handed the semaphore and not yet
\* resumed, "work" suspended inside worker_fn.
WorkerFnResults == {"ok", "Exception"}

\* the backlog as process_queue sees it after skipping the cancelled tasks
\* at its head (the `continue' loops without suspending)
RECURSIVE DropCancelled(_, _)
DropCancelled(qu, st) ==
    IF qu = <<>> THEN <<>>
    ELSE IF st[Head(qu)] = "CANCELLED" THEN DropCancelled(Tail(qu), st)
    ELSE qu

\* asyncio.Semaphore.locked()
Locked(v, wt) == v = 0 \/ wt # <<>>

\* consumer c at the top of `while True', with the positions k of the
\* consumers, the status table st, the semaphore value v and its waiters wt:
\* it runs until its next suspension
LoopTopTask(c, k, st, v, wt) ==
    LET q1 == DropCancelled(t_queue, st) IN
    IF q1 = <<>>
    THEN /\ t_queue' = <<>>
         /\ kpc' = [k EXCEPT ![c] = "get"]
         /\ ktask' = [ktask EXCEPT ![c] = 0]
         /\ t_status' = st
         /\ t_sem' = v
         /\ t_waiters' = wt
         /\ t_worked' = t_worked
    ELSE LET t == Head(q1) IN
         /\ t_queue' = Tail(q1)
         /\ ktask' = [ktask EXCEPT ![c] = t]
         /\ IF Locked(v, wt)
            THEN /\ kpc' = [k EXCEPT ![c] = "acquire"]
                 /\ t_waiters' = Append(wt, c)
                 /\ t_sem' = v
                 /\ t_status' = st
                 /\ t_worked' = t_worked
            ELSE /\ kpc' = [k EXCEPT ![c] = "work"]
                 /\ t_waiters' = wt
                 /\ t_sem' = v - 1
                 /\ t_status' = [st EXCEPT ![t] = "PROCESSING"]
                 /\ t_worked' = t_worked \cup {t}

\* a process_queue coroutine is started
StartConsumer(c) ==
    /\ kpc[c] = "idle"
    /\ LoopTopTask(c, kpc, t_status, t_sem, t_waiters)
    /\ UNCHANGED <<t_cancelled, queuevars, resolvervars, clientvars, pipevars,
                   presetvars, pickvars, backoffvars>>

\* add_task: the queue is unbounded, put() does not suspend
AddTask(t) ==
    /\ t_status[t] = "NONE"
    /\ t_status' = [t_status EXCEPT ![t] = "PENDING"]
    /\ t_queue' = Append(t_queue, t)
    /\ UNCHANGED <<t_sem, t_waiters, kpc, ktask, t_cancelled, t_worked, queuevars,
                   resolvervars, clientvars, pipevars, presetvars, pickvars, backoffvars>>

\* queue.get() resumes a consumer that was waiting for a task
ConsumerGet(c) ==
    /\ kpc[c] = "get"
    /\ t_queue # <<>>
    /\ LoopTopTask(c, kpc, t_status, t_sem, t_waiters)
    /\ UNCHANGED <<t_cancelled, queuevars, resolvervars, clientvars, pipevars,
                   presetvars, pickvars, backoffvars>>

\* the consumer that was handed the semaphore resumes inside `async with'
SemaphoreWake(c) ==
    /\ kpc[c] = "granted"
    /\ kpc' = [kpc EXCEPT ![c] = "work"]
    /\ t_status' = [t_status EXCEPT ![ktask[c]] = "PROCESSING"]
    /\ t_worked' = t_worked \cup {ktask[c]}
    /\ UNCHANGED <<t_queue, t_sem, t_waiters, ktask, t_cancelled, queuevars,
                   resolvervars, clientvars, pipevars, presetvars, pickvars, backoffvars>>

\* worker_fn returns or raises: the semaphore is released (handed to the
\* first waiter if there is one), a raise marks the task FAILED, task_done,
\* and the consumer is back at the top of the loop
WorkerFnReturn(c, r) ==
    /\ kpc[c] = "work"
    /\ LET st == IF r = "Exception" THEN [t_status EXCEPT ![ktask[c]] = "FAILED"]
                 ELSE t_status
           handed == t_waiters # <<>>
           k1 == IF handed THEN [kpc EXCEPT ![Head(t_waiters)] = "granted"] ELSE kpc
           v == IF handed THEN t_sem ELSE t_sem + 1
           wt == IF handed THEN Tail(t_waiters) ELSE t_waiters
       IN LoopTopTask(c, k1, st, v, wt)
    /\ UNCHANGED <<t_cancelled, queuevars, resolvervars, clientvars, pipevars,
                   presetvars, pickvars, backoffvars>>

\* cancel_task: true only for a task that is PENDING or QUEUED
CancelTaskReturns(t) == t_status[t] \in {"PENDING", "QUEUED"}
CancelTask(t) ==
    /\ IF CancelTaskReturns(t)
       THEN /\ t_status' = [t_status EXCEPT ![t] = "CANCELLED"]
            /\ t_cancelled' = t_cancelled \cup {t}
       ELSE UNCHANGED <<t_status, t_cancelled>>
    /\ UNCHANGED <<t_queue, t_sem, t_waiters, kpc, ktask, t_worked, queuevars,
                   resolvervars, clientvars, pipevars, presetvars, pickvars, backoffvars>>

\* a TaskQueue constructed with max_concurrent, no consumer started yet
TaskInit ==
    /\ QueueInit
    /\ concurrency = 1
    /\ on_status = "returns"
    /\ ResolverIdle
    /\ ClientIdle
    /\ PipelineIdle
    /\ PresetIdle
    /\ PickIdle
    /\ BackoffIdle
    /\ t_status = [t \in TaskIds |-> "NONE"]
    /\ t_queue = <<>>
    /\ t_sem \in 1..NConsumers
    /\ t_waiters = <<>>
    /\ kpc = [c \in Consumers |-> "idle"]
    /\ ktask = [c \in Consumers |-> 0]
    /\ t_cancelled = {}
    /\ t_worked = {}

TaskNext ==
    \/ \E c \in Consumers : StartConsumer(c)
    \/ \E t \in TaskIds : AddTask(t)
    \/ \E c \in Consumers : ConsumerGet(c)
    \/ \E c \in Consumers : SemaphoreWake(c)
    \/ \E c \in Consumers : \E r \in WorkerFnResults : WorkerFnReturn(c, r)
    \/ \E t \in TaskIds : CancelTask(t)

TaskSpec == TaskInit /\ [][TaskNext]_vars

\* ================================================================= claims
\* what the observer and the callers can tell from what they received
HasTerminalReport(j) == \E i \in DOMAIN hist[j] : hist[j][i].st \in Terminal
CountStatus(j, s) == Cardinality({i \in DOMAIN hist[j] : hist[j][i].st = s})
\* the i-th report came from cancel() and no terminal status was reported before
LiveCancelAt(j, i) ==
    /\ hist[j][i].by = "cancel"
    /\ \A k \in 1..(i - 1) : hist[j][k].st \notin Terminal
\* the job was cancelled before a worker dequeued it
CancelledPending(j) == Len(hist[j]) >= 2 /\ hist[j][2].by = "cancel"
HeldBy(j) == {w \in WorkerIds : wjob[w] = j}

\* C1: the reports of a job are QUEUED first, then only RUNNING/RETRYING, then
\* one terminal status, and nothing after the terminal report.
C1_MonotonicReports ==
    \A j \in JobIds : \A i \in DOMAIN hist[j] :
        /\ (i = 1) => hist[j][i].st = QUEUED
        /\ (i > 1) => /\ hist[j][i].st # QUEUED
                      /\ hist[j][i - 1].st \notin Terminal
        /\ (i = Len(hist[j])) => status[j] = hist[j][i].st

\* C2: while the queue is started and not stopped, every enqueued job
\* eventually has a terminal status reported to the observer.
C2_EventuallyTerminal ==
    \A j \in JobIds : (j \in jobs /\ tasks # {}) ~> HasTerminalReport(j)

C2_Witness ==
    \E j \in JobIds :
        /\ HasTerminalReport(j)
        /\ calls[j] = MaxRetries + 1
        /\ epc = [k \in JobIds |-> "returned"]
        /\ \A k \in JobIds : HasTerminalReport(k)

\* the reports of a job whose every attempt fails
RECURSIVE RetryRounds(_)
RetryRounds(n) == IF n = 0 THEN <<>> ELSE <<RUNNING, RETRYING>> \o RetryRounds(n - 1)
FailedTrace == <<QUEUED>> \o RetryRounds(MaxRetries) \o <<RUNNING, FAILED>>
IsPrefix(a, b) == Len(a) <= Len(b) /\ \A i \in 1..Len(a) : a[i] = b[i]
NeverCancelled(j) == \A i \in DOMAIN hist[j] : hist[j][i].st # CANCELED
OnlyRaised(j) == \A i \in DOMAIN hist[j] : hist[j][i].st # DONE

\* C3: a job that is never cancelled and whose worker function raises on every
\* call is reported FAILED only after exactly max_retries + 1 invocations, each
\* but the last followed by RETRYING.
C3_RetryBudget ==
    \A j \in JobIds :
        (NeverCancelled(j) /\ OnlyRaised(j)) =>
            /\ IsPrefix(Reports(j), FailedTrace)
            /\ calls[j] = CountStatus(j, RUNNING) - (IF \E w \in HeldBy(j) : wpc[w] = "run_st" THEN 1 ELSE 0)
            /\ (CountStatus(j, FAILED) = 1) => calls[j] = MaxRetries + 1

C3_Witness ==
    \E j \in JobIds :
        /\ NeverCancelled(j)
        /\ Reports(j) = FailedTrace
        /\ calls[j] = MaxRetries + 1
        /\ error_cb[j] = 1

\* C4: once cancel() has returned true for a job that was not terminal, the job
\* never reports DONE or FAILED and neither on_done nor on_error is invoked.
C4_CancelledNeverCompletes ==
    \A j \in JobIds : \A i \in DOMAIN hist[j] :
        LiveCancelAt(j, i) =>
            /\ \A m \in (i + 1)..Len(hist[j]) : hist[j][m].st \notin {DONE, FAILED}
            /\ done_cb[j] = 0
            /\ error_cb[j] = 0

\* C5: a job cancelled after enqueue and before a worker dequeued it is skipped
\* by the worker that dequeues it: the worker function is never invoked for it
\* and it ends CANCELED.
C5_CancelledPendingSkipped ==
    \A j \in JobIds :
        CancelledPending(j) =>
            /\ calls[j] = 0
            /\ CountStatus(j, RUNNING) = 0
            /\ status[j] = CANCELED
            /\ \A w \in HeldBy(j) : wpc[w] = "skip_st"
            /\ (taken[j] /\ HeldBy(j) = {}) =>
                   (hist[j][Len(hist[j])].st = CANCELED /\ done_cb[j] = 0 /\ error_cb[j] = 0)

C5_Witness ==
    \E j \in JobIds :
        /\ CancelledPending(j)
        /\ taken[j]
        /\ HeldBy(j) = {}
        /\ \E i \in DOMAIN hist[j] : hist[j][i] = [st |-> CANCELED, by |-> "worker"]

\* report i is cancel()'s, after a RUNNING; report k is a later RETRYING
CancelThenRetrying(j, i, k) ==
    /\ i < k
    /\ hist[j][i].by = "cancel"
    /\ \E r \in 1..(i - 1) : hist[j][r] = [st |-> RUNNING, by |-> "worker"]
    /\ hist[j][k] = [st |-> RETRYING, by |-> "worker"]

\* C6: a job cancelled while an attempt is executing, whose attempt then fails
\* with retries remaining, gets no further attempt: after the backoff the check
\* before the attempt sees the flag, the worker function is not invoked again
\* and the job becomes CANCELED.
C6_NoAttemptAfterCancel ==
    \A j \in JobIds : \A i, k \in DOMAIN hist[j] :
        CancelThenRetrying(j, i, k) =>
            /\ \A m \in (k + 1)..Len(hist[j]) : hist[j][m].st = CANCELED
            /\ calls[j] = Cardinality({r \in 1..k : hist[j][r].st = RUNNING})
            /\ \A w \in HeldBy(j) : wpc[w] \in {"retry_st", "sleep", "pre_st"}
            /\ (HeldBy(j) = {} /\ spc = "idle") =>
                   /\ status[j] = CANCELED
                   /\ \E m \in (k + 1)..Len(hist[j]) : hist[j][m].by = "worker"

C6_Witness ==
    \E j \in JobIds :
        /\ Len(hist[j]) = 5
        /\ CancelThenRetrying(j, 3, 4)
        /\ hist[j][5] = [st |-> CANCELED, by |-> "worker"]
        /\ calls[j] = 1
        /\ HeldBy(j) = {}

\* C7: cancelling the same job twice never produces two terminal reports: the
\* observer receives CANCELED at most once, and the second call returns false
\* unless the job was still pending.
C7_CancelTwiceOneTerminal ==
    \A j \in JobIds :
        /\ CountStatus(j, CANCELED) <= 1
        /\ \A i, k \in DOMAIN hist[j] :
               (i < k /\ hist[j][i].by = "cancel" /\ hist[j][k].by = "cancel") =>
                   \A r \in 1..k : hist[j][r].by # "worker"

\* C8: cancel(id) for an id that was never enqueued returns false, calls no
\* observer and leaves every job's status and cancellation flag unchanged.
C8_UnknownIdCancel ==
    [][\A id \in JobIds :
          (id \notin jobs /\ cancel_rets'[id] # cancel_rets[id]) =>
              /\ cancel_rets'[id] = Append(cancel_rets[id], FALSE)
              /\ UNCHANGED <<status, cancel_event, hist, jobs, q>>]_vars

C8_Witness ==
    \E id \in JobIds :
        /\ id \notin jobs
        /\ Len(cancel_rets[id]) >= 1
        /\ \E j \in JobIds : j \in jobs /\ ~cancel_event[j]

\* where a job is between enqueue() and a worker
InBacklog(j) == \E i \in DOMAIN q : q[i] = j
NeverDropped(j) ==
    /\ Cardinality({i \in DOMAIN q : q[i] = j}) <= 1
    /\ (epc[j] = "returned") <=> (InBacklog(j) \/ taken[j])
    /\ ~(InBacklog(j) /\ taken[j])
    /\ (epc[j] # "new") => j \in jobs

\* C9: enqueue never rejects or drops a job: with the backlog full the call
\* suspends until there is room; the backlog never holds more than maxsize
\* jobs; and every job whose enqueue returned is dequeued by a worker.
C9_Backpressure ==
    /\ [](Len(q) <= Maxsize /\ \A j \in JobIds : NeverDropped(j))
    /\ [][\A j \in JobIds :
             (epc[j] = "status" /\ epc'[j] # "status" /\ Len(q) >= Maxsize) =>
                 (epc'[j] = "putwait" /\ q' = q)]_vars
    /\ \A j \in JobIds : (epc[j] = "returned" /\ tasks # {}) ~> taken[j]

C9_Witness ==
    \E j, k \in JobIds :
        /\ epc[j] = "putwait"
        /\ Len(q) = Maxsize
        /\ InBacklog(k)
        /\ epc[k] = "returned"
        /\ tasks # {}

\* the jobs in execution as the observer sees them; the worker's own reports
Executing == {j \in JobIds : CountStatus(j, RUNNING) >= 1 /\ ~HasTerminalReport(j)}
WorkerReports(j) == SelectSeq(hist[j], LAMBDA e : e.by = "worker")
WorkerIsDone(j) ==
    /\ WorkerReports(j) # <<>>
    /\ WorkerReports(j)[Len(WorkerReports(j))].st \in Terminal

\* C10: at most `concurrency` jobs are between their first RUNNING and their
\* terminal report, and a worker takes another job only after the job it
\* holds has had its last attempt.
C10_BoundedConcurrency ==
    /\ [](Cardinality(Executing) <= concurrency)
    /\ [][\A w \in WorkerIds :
             (wjob[w] # 0 /\ wjob'[w] \notin {0, wjob[w]}) => WorkerIsDone(wjob[w])]_vars

C10_Witness ==
    /\ concurrency = 1
    /\ Cardinality(Executing) = 1
    /\ wpc[0] = "sleep"
    /\ \E j \in JobIds : epc[j] = "returned" /\ ~taken[j]

\* report i is the worker's and the worker has not reported a terminal status
\* from report i up to (not including) report k
WorkerAtWork(j, i, k) ==
    /\ i < k
    /\ hist[j][i].by = "worker"
    /\ \A m \in i..(k - 1) : ~(hist[j][m].by = "worker" /\ hist[j][m].st \in Terminal)

\* C11: no job is held by two workers at once, and between a worker's first
\* report for a job and that worker's terminal report nobody else writes the
\* job's status.
C11_SingleWriter ==
    \A j \in JobIds :
        /\ Cardinality(HeldBy(j)) <= 1
        /\ \A i, k \in DOMAIN hist[j] :
               WorkerAtWork(j, i, k) => hist[j][k].by = "worker"

\* the statuses the worker reported for a job, in order
WorkerStatuses(j) == [i \in 1..Len(WorkerReports(j)) |-> WorkerReports(j)[i].st]
\* what a worker reports for one job when nothing disturbs it: RUNNING and
\* RETRYING in turn, closed by DONE or FAILED after a RUNNING or by CANCELED
\* in place of a RUNNING, FAILED only after the last attempt
WellFormedRun(ws) ==
    /\ Len(ws) <= 2 * (MaxRetries + 1)
    /\ \A i \in DOMAIN ws :
           /\ (i % 2 = 1) => ws[i] \in {RUNNING, CANCELED}
           /\ (i % 2 = 0) => ws[i] \in {RETRYING, DONE, FAILED} /\ ws[i - 1] = RUNNING
           /\ ws[i] \in Terminal => i = Len(ws)
           /\ ws[i] = FAILED => i = 2 * (MaxRetries + 1)
AtRunStatus(j) == \E w \in HeldBy(j) : wpc[w] = "run_st"

\* C12: with an observer that may raise on any report, every job still gets
\* the attempts and the reports of an undisturbed run (each RUNNING report is
\* followed by one invocation, DONE by on_done, FAILED by on_error), no call
\* of enqueue or cancel and no worker task ends with the observer's exception,
\* and every job whose enqueue returned is taken by a worker, which reports a
\* terminal status for it.
C12_ObserverRaises ==
    /\ [](\A j \in JobIds :
             /\ WellFormedRun(WorkerStatuses(j))
             /\ calls[j] = CountStatus(j, RUNNING) - (IF AtRunStatus(j) THEN 1 ELSE 0)
             /\ done_cb[j] + error_cb[j] <= 1
             /\ epc[j] # "raised"
             /\ \A i \in DOMAIN cancel_rets[j] : cancel_rets[j][i] \in BOOLEAN)
    /\ [](\A w \in tasks : wpc[w] # "exit")
    /\ \A j \in JobIds : (epc[j] = "returned" /\ tasks # {}) ~> WorkerIsDone(j)

C12_Witness ==
    \E j, k \in JobIds :
        /\ obs_raised[j] /\ obs_raised[k]
        /\ concurrency = 1
        /\ WorkerStatuses(j) = <<RUNNING, RETRYING, RUNNING, DONE>>
        /\ calls[j] = 2 /\ done_cb[j] = 1
        /\ wjob[0] = k /\ k # j /\ wpc[0] = "fn"

\* worker w's attempt ends in this step because the per-attempt timeout fired
TimedOut(w) ==
    /\ wpc[w] = "fn"
    /\ wpc'[w] \in {"retry_st", "fail_st"}
    /\ last_error'[wjob[w]] = "timeout"
LastReport(j) == hist[j][Len(hist[j])]

\* C13: an attempt that exceeds the timeout is abandoned and handled as a
\* failure: with attempt <= max_retries RETRYING is reported and, after the
\* backoff sleep, the next attempt begins; on the final attempt FAILED is
\* reported and the worker function is not invoked again.
C13_TimeoutIsFailure ==
    /\ [][\A w \in WorkerIds :
             TimedOut(w) =>
                 LET j == wjob[w] IN
                 /\ wjob'[w] = j /\ calls'[j] = calls[j] /\ attempt'[j] = attempt[j]
                 /\ hist'[j] = Append(hist[j], [st |-> status'[j], by |-> "worker"])
                 /\ (attempt[j] <= MaxRetries) => (status'[j] = RETRYING /\ wpc'[w] = "retry_st")
                 /\ (attempt[j] > MaxRetries) => (status'[j] = FAILED /\ wpc'[w] = "fail_st")]_vars
    /\ [][\A w \in WorkerIds :
             (wpc[w] = "retry_st" /\ wpc'[w] \notin {"retry_st", "exit"}) => wpc'[w] = "sleep"]_vars
    /\ [][\A w \in WorkerIds :
             (wpc[w] = "sleep" /\ wpc'[w] \notin {"sleep", "exit"}) =>
                 /\ attempt'[wjob[w]] = attempt[wjob[w]] + 1
                 /\ wpc'[w] \in {"run_st", "pre_st"}
                 /\ (wpc'[w] = "run_st") <=> ~cancel_event[wjob[w]]]_vars
    /\ [](\A w \in WorkerIds :
             wpc[w] \in {"fail_st", "on_error"} => attempt[wjob[w]] = MaxRetries + 1)

C13_Witness ==
    \E j, k \in JobIds :
        /\ Reports(j) = FailedTrace
        /\ last_error[j] = "timeout"
        /\ error_cb[j] = 1
        /\ last_error[k] = "timeout"
        /\ attempt[k] = 2 /\ LastReport(k) = [st |-> RUNNING, by |-> "worker"]
        /\ Reports(k) = <<QUEUED, RUNNING, RETRYING, RUNNING>>

\* get_job(id): self._jobs.get(job_id)
GetJob(id) == IF id \in jobs THEN id ELSE 0

\* the worker has finished with the job and its terminal status was reported
Finished(j) == taken[j] /\ HeldBy(j) = {} /\ HasTerminalReport(j)
\* report i is cancel()'s and the worker had reported a terminal status before
CancelAfterWorkerEnd(j, i) ==
    /\ hist[j][i].by = "cancel"
    /\ \E k \in 1..(i - 1) : hist[j][k].by = "worker" /\ hist[j][k].st \in Terminal

\* C14: once a job's terminal status has been reported the registry no longer
\* holds it: get_job finds nothing and cancel does not find it (it makes no
\* report and returns false).
C14_RegistryDropsFinished ==
    \A j \in JobIds :
        /\ Finished(j) => GetJob(j) = 0
        /\ \A i \in DOMAIN hist[j] : ~CancelAfterWorkerEnd(j, i)

\* C15: after an attempt that ended with the engine's rejection of the
\* submission the job is not attempted again: its worker reports FAILED and
\* calls on_error, it neither retries nor starts another attempt.
C15_RejectionNotRetried ==
    \A j \in JobIds : \A w \in HeldBy(j) :
        last_error[j] = "rejected" => wpc[w] \in {"fail_st", "on_error"}

\* ---- the resolver
\* the filename-bearing entries of a history item, each with its place: the
\* position of its node in the outputs map and the slot that lists it
SlotEntries(nodes, i, k) ==
    {[node |-> i, node_id |-> nodes[i].id, key |-> k,
      filename |-> nodes[i].out[k][n].filename,
      size |-> IF Has(nodes[i].out[k][n], "size") THEN nodes[i].out[k][n].size ELSE 0] :
         n \in {m \in DOMAIN nodes[i].out[k] : Has(nodes[i].out[k][m], "filename")}}
FileEntries(item) ==
    IF ~Has(item, "outputs") \/ ~item.outputs.isdict THEN {}
    ELSE LET nodes == item.outputs.nodes
         IN UNION {UNION {SlotEntries(nodes, i, k) : k \in DOMAIN nodes[i].out} : i \in DOMAIN nodes}
\* extension classes, best first: video, animated gif, still image, other
MediaClass(filename) ==
    IF filename.ext \in {"mp4", "MP4"} THEN 1
    ELSE IF filename.ext = "gif" THEN 2
    ELSE IF filename.ext = "png" THEN 3
    ELSE 4
\* the entries the resolver's answer names
Chosen(item, r) == {e \in FileEntries(item) : e.node_id = r.node_id /\ e.filename = r.filename}

\* C19: the resolver returns an entry of the payload of the best extension
\* class present (video, else gif, else still image, else other), whatever
\* the node, the slot and the size of the entries.
C19_BestClassWins ==
    (resolved # Unset /\ FileEntries(payload) # {}) =>
        /\ resolved # None
        /\ Cardinality(Chosen(payload, resolved)) = 1
        /\ \A e \in Chosen(payload, resolved) : \A x \in FileEntries(payload) :
               MediaClass(e.filename) <= MediaClass(x.filename)

C19_Witness ==
    /\ Has(payload, "outputs") /\ payload.outputs.isdict
    /\ FileEntries(payload) =
           {[node |-> 1, node_id |-> "9", key |-> "images",
             filename |-> [stem |-> "images", ext |-> "png"], size |-> 1],
            [node |-> 2, node_id |-> "12", key |-> "videos",
             filename |-> [stem |-> "videos", ext |-> "mp4"], size |-> 0]}
    /\ resolved = [node_id |-> "12", filename |-> [stem |-> "videos", ext |-> "mp4"]]

\* the fixed rank of the slot names, best first
SlotRank(key) == CHOOSE i \in 1..4 : <<"videos", "gifs", "images", "files">>[i] = key
SameClass(e, x) == MediaClass(e.filename) = MediaClass(x.filename)
\* e is collected before x: nodes in payload order, slots in rank order
CollectedBefore(e, x) ==
    e.node < x.node \/ (e.node = x.node /\ SlotRank(e.key) <= SlotRank(x.key))

FailedRequest(resp) == IsException(resp) \/ resp.status_code # 200
\* the task is inside wait_for_result
Waiting == cpc \in {"history", "resolve_sleep", "view", "view_sleep", "queue", "grace", "poll"}

C17_FailedReadKeepsPolling ==
    [][(cpc \in {"history", "queue"} /\ cpc' # cpc /\ FailedRequest(gw'.resp)) =>
         /\ ~gw'.raised
         /\ gw'.ret = EmptyDict
         /\ cpc' # "returned"]_vars

\* C18: view_bytes sends at most 3 requests in one call; the first request
\* that succeeds ends the call, which returns that answer's bytes, and a
\* failed one is followed by the sleep; the call raises only after 3 failed
\* requests.
C18_ViewBytesThreeRequests ==
    /\ [](vb.requests <= 3)
    /\ [][(cpc = "view" /\ cpc' # "view") =>
            IF ~FailedRequest(vb'.resp)
            THEN /\ cpc' # "view_sleep"
                 /\ gw'.call = "view_bytes"
                 /\ ~gw'.raised
                 /\ gw'.ret = vb'.resp.content
                 /\ vb'.requests = vb.requests
                 /\ gw'.requests = vb.requests
                 /\ gw'.failures = gw'.requests - 1
            ELSE /\ cpc' = "view_sleep"
                 /\ gw' = gw]_vars
    /\ []((gw.call = "view_bytes" /\ gw.raised) => (gw.requests = 3 /\ gw.failures = 3))
\* two requests failed and the third one delivered the bytes
C18_Witness ==
    /\ gw.call = "view_bytes"
    /\ ~gw.raised
    /\ gw.requests = 3
    /\ gw.failures = 2
    /\ gw.ret = "bytes"

\* ---- the resolver on payloads without a file
\* no entry of the outputs map carries a filename: the map is missing, not
\* an object, empty, or its nodes list only entries without one
NoFilenameBearing(history) ==
    \/ ~Has(history, "outputs")
    \/ ~history.outputs.isdict
    \/ \A i \in DOMAIN history.outputs.nodes :
         LET out == history.outputs.nodes[i].out IN
         \A k \in DOMAIN out : \A n \in DOMAIN out[k] : ~Has(out[k][n], "filename")

\* C21: on a payload whose outputs map is empty, missing, or holds no entry
\* with a filename, _extract_first_file returns None (a normal return).
C21_AbsentWithoutFile ==
    (resolved # Unset /\ NoFilenameBearing(payload)) => resolved = None
\* a node lists an entry, the entry has no filename, and None came back
C21_Witness ==
    /\ resolved = None
    /\ Has(payload, "outputs")
    /\ payload.outputs.isdict
    /\ Len(payload.outputs.nodes) = 2
    /\ NoFilenameBearing(payload)

\* ---- the pipeline (core/telegram_pipeline.py)
\* C22: the map never holds for a user the job of another user; the call of
\* enqueue_from_message that writes the map last wins, and writes only its
\* own user's entry; cancel_last(user) cancels the job the map holds for that
\* user and touches no other job; without an entry it returns False and
\* changes nothing.
C22_CancelLastTargets ==
    /\ [](\A u \in Users : user_last_job[u] # 0 => user_of[user_last_job[u]] = u)
    /\ [][\A j \in JobIds :
            (mpc[j] = "answer" /\ mpc'[j] = "enqueue") =>
                /\ user_last_job'[user_of[j]] = j
                /\ \A v \in Users \ {user_of[j]} : user_last_job'[v] = user_last_job[v]]_vars
    /\ [][(last_cancel' # last_cancel \/ cancel_rets' # cancel_rets) =>
            LET c == last_cancel' IN
            /\ c.job_id = user_last_job[c.user]
            /\ IF c.job_id = 0
               THEN c.ret = FALSE /\ UNCHANGED queuevars
               ELSE /\ user_of[c.job_id] = c.user
                    /\ mpc[c.job_id] = "enqueue"
                    /\ c.ret = TRUE
                    /\ cancel_event'[c.job_id]
                    /\ \A k \in JobIds \ {c.job_id} :
                         /\ cancel_event'[k] = cancel_event[k]
                         /\ hist'[k] = hist[k]
                         /\ cancel_rets'[k] = cancel_rets[k]]_vars
\* two calls for one user; the one for job 1 wrote the map last, and
\* cancel_last cancelled job 1 and not job 2
C22_Witness ==
    /\ mpc = [j \in JobIds |-> "enqueue"]
    /\ user_of[1] = user_of[2]
    /\ user_last_job[user_of[1]] = 1
    /\ last_cancel = [user |-> user_of[1], job_id |-> 1, ret |-> TRUE]
    /\ cancel_event[1]
    /\ ~cancel_event[2]

\* ---- the waiter (comfy/client.py: wait_for_result)
\* how wait_for_result ended
Resolved == cpc = "returned" /\ wait_ret \notin {None, Unset}
SilentFailure ==
    /\ cpc = "returned"
    /\ wait_ret = None
    /\ client_last_error \in {"completed without outputs",
                              "completed with status but no outputs"}
TimedOutWait == cpc = "returned" /\ wait_ret = None /\ client_last_error = "Timeout"

\* the payload has an entry for the handle, with an output that has a filename
EntryBearsFile(hh, pid) ==
    /\ HasEntry(hh, pid)
    /\ Has(hh[pid], "outputs")
    /\ ~NoFilenameBearing(hh[pid])

\* C23: on a tick whose payload has an entry for the handle with an output
\* that has a filename, the waiter resolves that artifact and fetches its
\* bytes; and when the fetch delivers bytes that are not empty, it returns
\* the artifact's filename and these bytes.
C23_FileAndBytesResolve ==
    /\ [][(cpc = "history" /\ cpc' # "history"
             /\ EntryBearsFile(history_h', prompt_id)) =>
            /\ cpc' = "view"
            /\ file_f' = ExtractFirstFile(history_h'[prompt_id])]_vars
    /\ [][(cpc = "view" /\ cpc' # "view"
             /\ ~FailedRequest(vb'.resp) /\ vb'.resp.content # "") =>
            /\ cpc' = "returned"
            /\ wait_ret'.filename = file_f.filename
            /\ wait_ret'.bytes = vb'.resp.content]_vars

\* an artifact was resolved on the tick the waiter is in (or ended in)
ArtifactResolvedThisTick ==
    /\ EntryHasOutputs(history_h, prompt_id)
    /\ file_f \notin {None, Unset}

\* C24: a tick on which an artifact was resolved ends the wait only as
\* RESOLVED (or, after the wait went on, by the deadline): a byte fetch that
\* raises or delivers nothing never ends it.
C24_FetchFailureKeepsPolling ==
    (cpc = "returned" /\ ArtifactResolvedThisTick) => (Resolved \/ TimedOutWait)

\* C25: SILENT_FAILURE is declared only on a queue snapshot that was obtained
\* and lists the handle neither as running nor as pending.
C25_SilentFailureNeedsSnapshot ==
    SilentFailure =>
        /\ gw.call = "get_queue_status"
        /\ ~FailedRequest(gw.resp)
        /\ ~PromptInQueue(gw.resp.json, prompt_id)

\* C26: each time the handle is not in the snapshot and the payload has no
\* entry for it, the waiter takes a grace retry and sleeps 2 s, five times;
\* the sixth such observation, and no earlier one, ends the wait as
\* SILENT_FAILURE with the "completed without outputs" message.
C26_FiveGraceRetries ==
    /\ [][(cpc = "queue" /\ cpc' # "queue"
             /\ ~PromptInQueue(gw'.ret, prompt_id)
             /\ ~HasEntry(history_h, prompt_id)) =>
            IF empty_history_retries < 5
            THEN /\ empty_history_retries' = empty_history_retries + 1
                 /\ cpc' = "grace"
            ELSE /\ cpc' = "returned"
                 /\ wait_ret' = None
                 /\ client_last_error' = "completed without outputs"]_vars
    /\ [][(cpc = "grace" /\ cpc' # "grace") => now' = now + 2]_vars
    /\ [](empty_history_retries <= 5)
    /\ [](client_last_error = "completed without outputs" => empty_history_retries = 5)
\* the engine answered every time: no entry, and a snapshot without the handle
C26_Witness ==
    /\ SilentFailure
    /\ client_last_error = "completed without outputs"
    /\ empty_history_retries = 5
    /\ ~FailedRequest(gw.resp)

\* C27: in the ticks 1 to 3 the waiter does not ask for the queue snapshot
\* and does not declare SILENT_FAILURE; on tick 4, when the payload has no
\* outputs, it asks.
C27_QueueCheckFromFourthTick ==
    /\ [](cpc = "queue" => check_count >= 4)
    /\ [](gw.call = "get_queue_status" => check_count >= 4)
    /\ [](SilentFailure => check_count >= 4)
    /\ [][(cpc = "history" /\ cpc' # "history" /\ check_count = 4
             /\ ~EntryHasOutputs(history_h', prompt_id)) => cpc' = "queue"]_vars
\* the first queue check
C27_Witness ==
    /\ cpc = "queue"
    /\ check_count = 4

\* C28: wait_for_result returns, and then it is in exactly one of RESOLVED,
\* SILENT_FAILURE and TIMEOUT; a new iteration of its loop starts only after
\* time has advanced; the loop is left at the deadline with None and the
\* timeout message in last_error, and not before.
C28_WaiterTerminates ==
    /\ Waiting ~> cpc = "returned"
    /\ [](cpc = "returned" =>
            /\ Resolved \/ SilentFailure \/ TimedOutWait
            /\ ~(Resolved /\ SilentFailure)
            /\ ~(Resolved /\ TimedOutWait)
            /\ ~(SilentFailure /\ TimedOutWait))
    /\ [][(check_count >= 1 /\ check_count' > check_count) => now' > now]_vars
    /\ [][(cpc \in {"poll", "grace"} /\ cpc' # cpc /\ now' >= Timeout) => TimedOutWait']_vars
    /\ [](TimedOutWait => now >= Timeout)
\* the deadline passed while the engine still listed the handle
C28_Witness ==
    /\ TimedOutWait
    /\ gw.call = "get_queue_status"
    /\ PromptInQueue(gw.ret, prompt_id)

\* ---- cancellation during an attempt (core/job_queue.py: _run_job)
\* C29: when the job's cancellation flag is set while its attempt is inside
\* the worker function (the submission and its poll loop), the attempt ends
\* as a cancellation: the worker leaves the function for the CANCELED report,
\* not with the function's own result or failure.
C29_FlagEndsAttempt ==
    [][\A w \in WorkerIds :
         (wpc[w] = "fn" /\ cancel_event[wjob[w]] /\ wpc'[w] # "fn") =>
             wpc'[w] = "canc_st"]_vars

\* the preset index of the attempt under way or ended last
LastSubmitted == submitted[Len(submitted)]

\* C30: within one video job the preset indices submitted start at the chosen
\* start index and each next one is strictly less than the one before (so none
\* is above the start and none occurs twice); nothing is submitted after a
\* success or after the job has failed, and after index 0 nothing is
\* submitted at all.
C30_StrictlyDecreasingPresets ==
    /\ [](submitted # <<>> => submitted[1] = start_idx)
    /\ [](\A k \in DOMAIN submitted : submitted[k] \in 0..start_idx)
    /\ [](\A k \in 1..(Len(submitted) - 1) : submitted[k + 1] < submitted[k])
    /\ [](\A k, m \in DOMAIN submitted : k # m => submitted[k] # submitted[m])
    /\ [][(ppc \in {"done", "raised"}) => (submitted' = submitted)]_vars
    /\ [][(submitted # <<>> /\ LastSubmitted = 0) => (submitted' = submitted)]_vars
    /\ [][(submitted' # submitted) =>
            (/\ Len(submitted') = Len(submitted) + 1
             /\ (submitted # <<>>) =>
                    (wait_ret = None /\ LighterPresetWanted(client_last_error)))]_vars

\* two presets failed for lack of memory and the cheapest one succeeded
C30_Witness == ppc = "done" /\ submitted = <<2, 1, 0>>

\* the attempt under way has failed: the submission was refused, or the wait
\* returned no result
AttemptFailed ==
    /\ ppc = "attempt"
    /\ \/ cpc = "rejected"
       \/ cpc = "returned" /\ wait_ret = None

\* C31: when the attempt at a preset index above 0 has failed with an error
\* text that matches a resource-exhaustion signature, at submission or while
\* waiting, the loop's next step submits the preset one index below.
C31_ExhaustionResubmits ==
    [][(AttemptFailed /\ IsOomError(client_last_error) /\ LastSubmitted > 0) =>
          (submitted' = Append(submitted, LastSubmitted - 1))]_vars

\* C32: when an attempt has failed with an error that matches no
\* resource-exhaustion signature, the loop's next step raises, with that
\* error's text when there is one, and submits nothing; nothing is submitted
\* afterwards.
C32_OtherFailureIsTerminal ==
    /\ [][(AttemptFailed /\ ~IsOomError(client_last_error)) =>
            (/\ ppc' = "raised"
             /\ submitted' = submitted
             /\ (client_last_error \notin {"None", ""}) =>
                    (preset_err' = client_last_error))]_vars
    /\ [][(ppc = "raised") => (ppc' = "raised" /\ submitted' = submitted)]_vars

\* the 720p attempt ended without outputs, the 480p attempt with a status
\* and no outputs: the job has failed with that text and 360p was not tried
C32_Witness ==
    /\ ppc = "raised"
    /\ preset_err = "completed with status but no outputs"
    /\ submitted = <<2, 1>>

\* every preset from the start index down to 0 was submitted, and the last
\* attempt has failed with an exhaustion text like the ones before it
AllPresetsExhausted ==
    /\ ppc = "raised"
    /\ submitted = AttemptIndices(start_idx)
    /\ cpc = "returned"
    /\ wait_ret = None
    /\ IsOomError(client_last_error)

\* C33: when every attempted preset down to the cheapest has failed with a
\* resource-exhaustion signature, the error the job ends with is the
\* dedicated out-of-memory notice.
C33_DedicatedExhaustionMessage ==
    AllPresetsExhausted => preset_err = DedicatedOomMessage

\* the call of the picker has returned
Picked == Has(pick_ret, "ret")
\* the figures the picker reads, and whether the scan of the devices ended
HintRead == Picked /\ ~(system_stats # None /\ ScanRaises(system_stats.devices))
FreeFigure == Figure(system_stats, "vram_free")
TotalFigure == Figure(system_stats, "vram_total")
\* the headroom in MB: a figure n * scale in bytes is n MB
FigureMb(fig) == fig.n
Headroom == IF IsNumber(FreeFigure) THEN FigureMb(FreeFigure) ELSE FigureMb(TotalFigure)
\* the memory each preset needs, and the preset that fits a headroom: the
\* dearest one whose need is covered
Need(p) == IF p = 2 THEN Need720 ELSE IF p = 1 THEN Need480 ELSE 0
FittingPreset(mb) == CHOOSE p \in 0..(NPresets - 1) :
    /\ Need(p) <= mb
    /\ \A r \in 0..(NPresets - 1) : Need(r) <= mb => r <= p

\* C34: whenever a headroom is reported (free memory if reported, else total,
\* in MB), the picker returns the preset that fits that headroom.
C34_PresetFitsHeadroom ==
    (HintRead /\ (IsNumber(FreeFigure) \/ IsNumber(TotalFigure))) =>
        pick_ret.ret = FittingPreset(Headroom)

\* C35: the picker returns a valid index into the preset list, and index 0
\* whenever the hint is missing, empty or not a number.
C35_DefaultsToCheapest ==
    Picked =>
        /\ pick_ret.ret \in 0..(NPresets - 1)
        /\ (system_stats = None \/ ~HintRead
            \/ (~IsNumber(FreeFigure) /\ ~IsNumber(TotalFigure))) => pick_ret.ret = 0

\* the only device reports its memory as text
C35_Witness ==
    /\ Picked
    /\ system_stats # None
    /\ Len(system_stats.devices) = 1
    /\ HintRead
    /\ FreeFigure = TextFig
    /\ TotalFigure = TextFig
    /\ pick_ret.ret = 0

\* C36: the sleep before the retry after failed attempt n lasts raw + jitter
\* with raw = min(backoff_max, backoff_base * 2^(n-1)) and jitter between 15%
\* and 35% of raw; raw never exceeds the ceiling and does not decrease from
\* one failed attempt to the next; the next attempt starts only when the
\* sleep has elapsed.
C36_BackoffSleep ==
    /\ [](b_pc = "sleep" =>
            /\ b_raw = Min(b_max_s, b_base * Pow2(b_attempt - 1))
            /\ 15 * b_raw <= 100 * b_jitter
            /\ 100 * b_jitter <= 35 * b_raw
            /\ b_raw <= b_max_s
            /\ b_raw >= b_prev_raw)
    /\ [][(b_attempt' # b_attempt) =>
            (/\ b_pc = "sleep"
             /\ b_attempt' = b_attempt + 1
             /\ b_clock >= b_raw + b_jitter)]_vars

\* the sixth attempt starts after a sleep whose raw part was cut from 32 s
\* to the ceiling of 30 s, the sleep before it having had 16 s
C36_Witness ==
    /\ b_pc = "attempt"
    /\ b_attempt = MaxAttempt
    /\ b_raw = BackoffMax * PerSecond
    /\ b_prev_raw = 16 * PerSecond
    /\ b_base = BackoffBase * PerSecond

\* C37: whenever a call of the pipeline's worker function ends, the worker
\* had found an entry point of the gateway in comfy.client to submit the job
\* to; no attempt fails for want of one.
C37_WorkerFindsGateway ==
    [][\A w \in WorkerIds :
         (wpc[w] = "fn" /\ wpc'[w] # "fn") => WorkerEntryPoint # "none"]_vars

\* the status the worker reported last for job j ("" when it reported none)
LastWorkerReport(j) ==
    IF WorkerReports(j) = <<>> THEN ""
    ELSE WorkerReports(j)[Len(WorkerReports(j))].st

\* C38: for every job on_done and on_error are invoked at most once together;
\* on_done is invoked by the worker whose DONE report has just ended, on_error
\* by the worker whose FAILED report has just ended, the attempt that failed
\* being the last one; when either callback ends, by returning or by raising,
\* the job's status and reports stay as they are and the worker goes on (it
\* ends only when the queue is stopping).
C38_CallbacksOnceAndHarmless ==
    /\ [](\A j \in JobIds : done_cb[j] + error_cb[j] <= 1)
    /\ [][\A j \in JobIds :
            (done_cb'[j] # done_cb[j]) =>
                (/\ done_cb'[j] = done_cb[j] + 1
                 /\ error_cb'[j] = error_cb[j]
                 /\ LastWorkerReport(j) = DONE
                 /\ \E w \in WorkerIds :
                        wjob[w] = j /\ wpc[w] = "done_st" /\ wpc'[w] = "on_done")]_vars
    /\ [][\A j \in JobIds :
            (error_cb'[j] # error_cb[j]) =>
                (/\ error_cb'[j] = error_cb[j] + 1
                 /\ done_cb'[j] = done_cb[j]
                 /\ LastWorkerReport(j) = FAILED
                 /\ last_error[j] # ""
                 /\ ~ShouldRetry(attempt[j], last_error[j])
                 /\ \E w \in WorkerIds :
                        wjob[w] = j /\ wpc[w] = "fail_st" /\ wpc'[w] = "on_error")]_vars
    /\ [][\A w \in WorkerIds :
            (wpc[w] \in {"on_done", "on_error"} /\ ~wcancel[w] /\ wpc'[w] # wpc[w]) =>
                (/\ status'[wjob[w]] = status[wjob[w]]
                 /\ hist'[wjob[w]] = hist[wjob[w]]
                 /\ (wpc'[w] = "exit") => stopping)]_vars

\* on_done of job 1 and on_error of job 2 were invoked and have ended, and
\* the worker that ran job 2 is back at q.get()
C38_Witness ==
    /\ done_cb[1] = 1
    /\ error_cb[2] = 1
    /\ error_cb[1] = 0
    /\ done_cb[2] = 0
    /\ \A w \in tasks : wpc[w] = "get"
    /\ tasks # {}

\* C39: when the cancellation of stop() reaches a worker inside the worker
\* function or inside its backoff sleep, the job it holds is reported
\* CANCELED; once stop() has returned no job is left RUNNING or RETRYING; and
\* no worker takes a job from the backlog after stop() was called.
C39_StopCancelsStartedJobs ==
    /\ [][\A w \in WorkerIds :
            (wcancel[w] /\ ~wcancel'[w] /\ wpc[w] \in {"fn", "sleep"}) =>
                (/\ status'[wjob[w]] = CANCELED
                 /\ hist'[wjob[w]] # hist[wjob[w]]
                 /\ hist'[wjob[w]][Len(hist'[wjob[w]])].st = CANCELED)]_vars
    /\ [](spc = "done" => \A j \in JobIds : status[j] \notin {RUNNING, RETRYING})
    /\ [][stopping => (\A j \in JobIds : taken'[j] = taken[j])]_vars

\* C40: a task for which cancel_task returned true is never passed to the
\* worker function, and its status stays CANCELLED.
C40_CancelledTaskNeverWorked ==
    \A t \in t_cancelled : t \notin t_worked /\ t_status[t] = "CANCELLED"


====
